---- MODULE Spec2Model ----
(***************************************************************************)
(* Model of the NetKet statistics engine (Sources/Stats/mc_stats.cc) and   *)
(* of the VariationalMonteCarlo driver (Sources/Stats/py_stats.cc).        *)
(*                                                                         *)
(* Numbers.  A C++ double is modelled as an exact extended rational        *)
(* <<n, d>> with d >= 0 in lowest terms: d > 0 is the rational n/d,        *)
(* <<1,0>> and <<-1,0>> are +inf and -inf and <<0,0>> is NaN.  Rounding    *)
(* error of the floating-point operations is not modelled; the IEEE rules  *)
(* for NaN, infinities and division by zero are.  std::complex<double> is  *)
(* a pair <<re, im>> of such doubles.  The result of std::sqrt is kept     *)
(* exactly as a surd <<n, d, s>> = (n/d) * sqrt(s), s square-free.         *)
(***************************************************************************)
EXTENDS Integers, Sequences, FiniteSets, TLC

\* ---- one collective call of Statistics by every MPI process ----
VARIABLES
  nprocs,        \* MPI_Comm_size(MPI_COMM_WORLD)
  input_values,  \* rank -> the `values` argument (sequence of <<re, im>>)
  input_chains,  \* rank -> the `local_number_chains` argument
  input_weights, \* rank -> the `weights` argument of WeightedStatistics
  stat_pc,       \* rank -> where the process is inside Statistics
  local_stats,   \* rank -> stats_local, the result of StatisticsLocal
  global_mean,   \* rank -> mean, the value of the first lambda
  sent_mean,     \* rank -> local_mean handed to the first MPI_Allreduce
  sent_var,      \* rank -> local_var[2] handed to the second MPI_Allreduce
  ncollectives,  \* rank -> number of MPI_Allreduce calls entered
  stats          \* rank -> the Stats value returned

statVars == <<nprocs, input_values, input_chains, input_weights, stat_pc, local_stats,
              global_mean, sent_mean, sent_var, ncollectives, stats>>

\* ---- the VariationalMonteCarlo driver, one instance per MPI process ----
VARIABLES
  cfg,        \* the constructor and Run arguments (the same on every rank)
  vmc_pc,     \* rank -> where the process is in the driver
  params,     \* rank -> the parameters held by the machine psi_
  channel,    \* rank -> parameter vectors broadcast to it, not yet received
  sync,       \* rank -> number of blocking collectives entered so far
  step,       \* rank -> the loop variable `step` of Run
  adv_i,      \* rank -> the loop variable `i` of Advance
  nsampled,   \* rank -> number of ComputeSamples calls made
  nupdates,   \* rank -> number of parameter vectors installed by SetParameters
  error,      \* rank -> the exception that ended the process, if any
  quota,      \* rank -> nsamples_node_ and ndiscard_
  sampler,    \* rank -> the sampler: its resets and its on-init sweeps
  mc_data,    \* rank -> mc_data_, the samples of the latest ComputeSamples
  observable_stats,  \* rank -> observable_stats_: key -> what it holds
  obs_i,      \* rank -> the loop variable `i` of ComputeObservables
  writer,     \* rank -> writer.has_value() in Run
  log         \* rank -> the steps of the records the rank has written

vmcVars == <<cfg, vmc_pc, params, channel, sync, step, adv_i, nsampled,
             nupdates, error, quota, sampler, mc_data, observable_stats,
             obs_i, writer, log>>

\* ---- VariationalExact: CheckDerLog and the solve of UpdateParameters ----
VARIABLES
  ex_pc,      \* rank -> where the process is in CheckDerLog
  psi_pars,   \* rank -> the parameter vector of psi_, in units of eps
  sr,         \* Ok_, elocs_, |psi|^2 and sr_diag_shift_ of UpdateParameters
  delta       \* solver path -> the system it solved and its deltaP

exVars == <<ex_pc, psi_pars, sr, delta>>

\* ---- one MetropolisGlobal chain sampling an RbmMultival machine ----
VARIABLES
  psi_,       \* the machine: W_, a_ and b_ in units of ln 2
  nv_,        \* hilbert_.Size(), the number of sites
  L_,         \* the side of the reshaping used by the block moves
  clusters_,  \* the site pairs of the exchange moves
  v_,         \* site -> its value in the current configuration
  lt_,        \* lt_.V(0), the theta of every hidden unit
  accept_,    \* move type -> accepted moves since the last Reset
  moves_,     \* move type -> moves since the last Reset
  mg_pc,      \* "idle", "sweep" inside Sweep, "overrun", "undefined" after UB
  sweep_i,    \* the loop variable `i` of Sweep
  last        \* the proposal of the latest iteration of Sweep, if any

mgVars == <<psi_, nv_, L_, clusters_, v_, lt_, accept_, moves_, mg_pc,
            sweep_i, last>>

\* ---- the Sampler wrapper ----
VARIABLES
  sw_ctor,    \* which of the four constructors of Sampler is called
  sw_pars,    \* the fields of pars that the wrapper looks at
  s_,         \* the concrete sampler held by the wrapper, "null" if none
  sw_pc,      \* where the constructor is, then "ready", "raised", "undefined"
  sw_calls    \* the calls delegated to s_ so far

swVars == <<sw_ctor, sw_pars, s_, sw_pc, sw_calls>>

\* ---- VariationalExact: dim_ and the configurations of GetConfig ----
VARIABLES
  ve_nv,      \* nv_ = psi_.Nvisible()
  dim_,       \* the int computed by the constructor
  ve_pc,      \* "new", "constructed", "fill" inside GetConfig, "done"
  myints,     \* the value list that std::next_permutation permutes
  vsamp_,     \* the rows filled so far
  ve_count,   \* the local `count` of GetConfig
  ve_ub       \* the undefined behaviour met so far, if any

veVars == <<ve_nv, dim_, ve_pc, myints, vsamp_, ve_count, ve_ub>>

vars == <<statVars, vmcVars, exVars, mgVars, swVars, veVars>>

\* ------------------------------------------------------------------------
\* Bounds of the model
\* ------------------------------------------------------------------------
\* largest number of MPI processes
MaxProcs == 2
\* largest local_number_chains handed to Statistics by one process
MaxChains == 2
\* largest total number of samples handed to Statistics by all processes
MaxSamples == 4
\* largest n_iter handed to Run
MaxIter == 2
\* largest step_size handed to Run
MaxStepSize == 2
\* parameter vectors are drawn from 0 .. MaxParam
MaxParam == 1
\* largest number of samples, over all ranks, handed to WeightedStatistics
MaxWeighted == 2
\* largest number of registered observables
MaxObs == 1
\* largest discarded_samples_on_init
MaxInitSweeps == 1
\* largest nsamples
MaxNSamples == 20
\* largest discarded_samples
MaxDiscard == 1
\* number of steps a run without n_iter is followed for
MaxSteps == 3
\* largest number of parameters of the machine
MaxNpar == 2
\* largest number of configurations (rows of Ok_)
MaxDim == 2
\* sites of the sampled lattice
MaxNv == 4
\* up spins of the sampled configurations
MaxUp == 1
\* iterations of the loop of Sweep between two resets of the sampler
MaxMoves == 4
\* observables registered under freely chosen names
MaxNames == 2

\* the unnormalised |psi|^2 of a configuration is drawn from these
PsiWeights == {1, 2}

\* the values sr_diag_shift_ is drawn from: 0 and 1/100
ShiftValues == { <<0, 1>>, <<1, 100>> }

\* nonstd::nullopt for n_iter
NullOpt == -1

\* the complex sample values the inputs are drawn from: 0, 1 and i
SampleValues == { <<0, 0>>, <<1, 0>>, <<0, 1>> }

\* the weights the inputs are drawn from: 0, 1/2 and 1
WeightValues == { <<0, 1>>, <<1, 2>>, <<1, 1>> }

\* the values the uniform draws of the sampler take: 0 and 3/4
UValues == { <<0, 1>>, <<3, 4>> }

\* the thresholds 0.2 and 0.5 of Sweep
OneFifth == <<1, 5>>
OneHalf == <<1, 2>>

\* the coupling W of the machine, in units of ln 2
WValues == {1}

\* the default of the argument dmax of the MetropolisGlobal constructors
DefaultDmax == 1

\* the visible bias a of the machine, in units of ln 2: none, ln 2, and one
\* so negative that exp underflows to 0
AValues == {0, 1, -2000}

\* ------------------------------------------------------------------------
\* double arithmetic
\* ------------------------------------------------------------------------
Abs(x) == IF x < 0 THEN -x ELSE x

Sign(x) == IF x < 0 THEN -1 ELSE IF x > 0 THEN 1 ELSE 0

RECURSIVE GCD(_, _)
GCD(a, b) == IF b = 0 THEN a ELSE GCD(b, a % b)

\* the double with numerator n and denominator d >= 0, in lowest terms
Norm(n, d) ==
  IF d = 0 THEN <<Sign(n), 0>>
  ELSE LET g == GCD(Abs(n), d) IN <<Sign(n) * (Abs(n) \div g), d \div g>>

NaN == <<0, 0>>
Zero == <<0, 1>>
One == <<1, 1>>
PosInf == <<1, 0>>

\* static_cast<double>(k) of an integer k
D(k) == <<k, 1>>

\* std::isnan
IsNaN(a) == a[1] = 0 /\ a[2] = 0

IsFinite(a) == a[2] > 0

\* a + b
DAdd(a, b) ==
  IF IsNaN(a) \/ IsNaN(b) THEN NaN
  ELSE IF a[2] = 0 /\ b[2] = 0 THEN (IF a[1] = b[1] THEN a ELSE NaN)
  ELSE IF a[2] = 0 THEN a
  ELSE IF b[2] = 0 THEN b
  ELSE Norm(a[1] * b[2] + b[1] * a[2], a[2] * b[2])

DNeg(a) == <<-a[1], a[2]>>

\* a - b
DSub(a, b) == DAdd(a, DNeg(b))

\* a * b  (0 * inf is <<0,0>>, that is NaN)
DMul(a, b) == Norm(a[1] * b[1], a[2] * b[2])

\* 1 / a  (1/0 = +inf: the zeros that reach a division here are sums of
\* non-negative terms, hence +0)
DRecip(a) == IF a[1] < 0 THEN <<-a[2], -a[1]>> ELSE <<a[2], a[1]>>

\* a / b  (0/0 and inf/inf are NaN, x/0 is +-inf)
DDiv(a, b) == DMul(a, DRecip(b))

\* a < b  (false when either is NaN)
DLess(a, b) ==
  IF IsNaN(a) \/ IsNaN(b) THEN FALSE
  ELSE IF a[2] = 0 /\ b[2] = 0 THEN a[1] < b[1]
  ELSE a[1] * b[2] < b[1] * a[2]

\* std::round: to the nearest integer, halves away from zero
DRound(a) ==
  IF a[2] = 0 THEN a
  ELSE IF a[1] >= 0 THEN <<(2 * a[1] + a[2]) \div (2 * a[2]), 1>>
  ELSE <<-((2 * (-a[1]) + a[2]) \div (2 * a[2])), 1>>

RECURSIVE LargestSquare(_, _, _)
\* the largest k with k*k dividing x (x > 0), searched upwards from k
LargestSquare(x, k, best) ==
  IF k * k > x THEN best
  ELSE LargestSquare(x, k + 1, IF x % (k * k) = 0 THEN k ELSE best)

\* std::sqrt, as the surd <<n, d, s>> = (n/d) * sqrt(s)
DSqrt(a) ==
  IF IsNaN(a) \/ a[1] < 0 THEN <<0, 0, 1>>
  ELSE IF a[2] = 0 THEN <<1, 0, 1>>
  ELSE IF a[1] = 0 THEN <<0, 1, 1>>
  ELSE LET x == a[1] * a[2]
           k == LargestSquare(x, 1, 1)
           q == Norm(k, a[2])
       IN  <<q[1], q[2], x \div (k * k)>>

\* a double stored in a field that also holds square roots
Surd(a) == <<a[1], a[2], 1>>

IsNaNS(r) == r[1] = 0 /\ r[2] = 0

\* ------------------------------------------------------------------------
\* std::complex<double>
\* ------------------------------------------------------------------------
\* the complex double of a sample value with integer parts
C(v) == <<D(v[1]), D(v[2])>>

CZero == <<Zero, Zero>>

CAdd(x, y) == <<DAdd(x[1], y[1]), DAdd(x[2], y[2])>>

CSub(x, y) == <<DSub(x[1], y[1]), DSub(x[2], y[2])>>

\* x / r for a real r
CDivD(x, r) == <<DDiv(x[1], r), DDiv(x[2], r)>>

\* Eigen abs2: |x|^2
CAbs2(x) == DAdd(DMul(x[1], x[1]), DMul(x[2], x[2]))

CIsFinite(x) == IsFinite(x[1]) /\ IsFinite(x[2])

\* std::conj
CConj(x) == <<x[1], DNeg(x[2])>>

\* x * r for a real r
CMulD(x, r) == <<DMul(x[1], r), DMul(x[2], r)>>

\* x * y
CMul(x, y) ==
  << DSub(DMul(x[1], y[1]), DMul(x[2], y[2])),
     DAdd(DMul(x[1], y[2]), DMul(x[2], y[1])) >>

\* std::abs of a complex number, as a surd
CAbs(x) == DSqrt(CAbs2(x))

\* the product r * r of a surd with itself, a double again
SurdSquare(r) == DMul(DMul(<<r[1], r[2]>>, <<r[1], r[2]>>), D(r[3]))

RECURSIVE SumD(_)
\* sum of a sequence of doubles
SumD(s) == IF s = <<>> THEN Zero ELSE DAdd(SumD(SubSeq(s, 1, Len(s) - 1)), s[Len(s)])

RECURSIVE SumC(_)
\* sum of a sequence of complex doubles
SumC(s) == IF s = <<>> THEN CZero ELSE CAdd(SumC(SubSeq(s, 1, Len(s) - 1)), s[Len(s)])

\* ------------------------------------------------------------------------
\* detail::MeanAndVarianceAccumulator
\* ------------------------------------------------------------------------
\* the constructor: both spans filled with 0.0, n_ = 0
AccInit(len) ==
  [mu |-> [j \in 1..len |-> Zero], M2 |-> [j \in 1..len |-> Zero], n |-> 0]

\* the kernel lambda of operator(): the new mu of one slot
KernelMu(mu, x, n) == DAdd(mu, DDiv(DSub(x, mu), D(n)))

\* the kernel with the update M2 += delta * delta (the mean before the
\* sample used twice)
KernelM2SquaredDelta(mu, M2, x, n) ==
  DAdd(M2, DMul(DSub(x, mu), DSub(x, mu)))

\* the kernel lambda of operator(): the new M2 of one slot
KernelM2(mu, M2, x, n) ==
  DAdd(M2, DMul(DSub(x, mu), DSub(x, KernelMu(mu, x, n))))

\* operator()(xs): one more sample for every slot
AccCall(acc, xs) ==
  LET n == acc.n + 1
  IN  [mu |-> [j \in 1..Len(acc.mu) |-> KernelMu(acc.mu[j], xs[j], n)],
       M2 |-> [j \in 1..Len(acc.mu) |->
                 KernelM2(acc.mu[j], acc.M2[j], xs[j], n)],
       n  |-> n]

\* the destructor without its branch for n_ == 1: M2 is scaled by 1/n_
AccFinishNoSingleBranch(acc) ==
  IF acc.n = 0 THEN
    [mu |-> [j \in 1..Len(acc.mu) |-> NaN],
     M2 |-> [j \in 1..Len(acc.M2) |-> NaN]]
  ELSE
    [mu |-> acc.mu,
     M2 |-> [j \in 1..Len(acc.M2) |-> DMul(acc.M2[j], DDiv(One, D(acc.n)))]]

\* the destructor: what it leaves in the two spans
AccFinish(acc) ==
  IF acc.n = 0 THEN
    [mu |-> [j \in 1..Len(acc.mu) |-> NaN],
     M2 |-> [j \in 1..Len(acc.M2) |-> NaN]]
  ELSE IF acc.n = 1 THEN
    [mu |-> acc.mu, M2 |-> [j \in 1..Len(acc.M2) |-> NaN]]
  ELSE
    [mu |-> acc.mu,
     M2 |-> [j \in 1..Len(acc.M2) |-> DMul(acc.M2[j], DDiv(One, D(acc.n)))]]

\* ------------------------------------------------------------------------
\* StatisticsLocal
\* ------------------------------------------------------------------------
\* the index when p advances by number_chains doubles per row only
FlatIndexHalfStride(i, j, number_chains) == (i * number_chains + j) \div 2

\* the flat index (from 0) of the complex value whose parts are the doubles
\* p[j] and p[j+1] of row i: p starts at values.data() and advances by
\* 2 * number_chains doubles per row
FlatIndex(i, j, number_chains) == i * number_chains + (j \div 2)

\* the span {p, 2 * number_chains} of row i (i from 0) as doubles
RowSpan(values, i, number_chains) ==
  [j \in 1..(2 * number_chains) |->
     C(values[FlatIndex(i, j - 1, number_chains) + 1])[((j - 1) % 2) + 1]]

RECURSIVE AccRows(_, _, _)
\* the accumulator after the loop over the rows 0 .. i-1
AccRows(values, number_chains, i) ==
  IF i = 0 THEN AccInit(2 * number_chains)
  ELSE AccCall(AccRows(values, number_chains, i - 1),
               RowSpan(values, i - 1, number_chains))

RECURSIVE FoldVar(_, _, _)
\* the loop var(i) = var(2*i) + var(2*i+1), done in place, for i .. M-1
\* (var is indexed from 1 here)
FoldVar(var, i, number_chains) ==
  IF i >= number_chains THEN var
  ELSE FoldVar([k \in 1..Len(var) |->
                  IF k = i + 1 THEN DAdd(var[2 * i + 1], var[2 * i + 2])
                  ELSE var[k]],
               i + 1, number_chains)

\* StatisticsLocal without its check of the remainder
LocalRaisesNoRemainderCheck(values, number_chains) == ~(number_chains > 0)

\* the two NETKET_CHECKs of StatisticsLocal
LocalRaises(values, number_chains) ==
  \/ ~(number_chains > 0)
  \/ ~(Len(values) % number_chains = 0)

\* the pair (mean, var) StatisticsLocal returns when its checks pass
StatisticsLocal(values, number_chains) ==
  LET rows == Len(values) \div number_chains
      fin  == AccFinish(AccRows(values, number_chains, rows))
      folded == FoldVar(fin.M2, 0, number_chains)
  IN  [mean |-> [c \in 1..number_chains |-> <<fin.mu[2 * c - 1], fin.mu[2 * c]>>],
       var  |-> SubSeq(folded, 1, number_chains)]

\* ------------------------------------------------------------------------
\* Statistics
\* ------------------------------------------------------------------------
\* Statistics without its check of the number of samples
NotEnoughSamplesUnchecked(values, local_number_chains) == FALSE

\* the NETKET_CHECK at the head of Statistics
NotEnoughSamples(values, local_number_chains) ==
  ~(Len(values) >= local_number_chains)

\* Statistics throws InvalidInputError before its first collective
StatisticsRaises(values, local_number_chains) ==
  \/ NotEnoughSamples(values, local_number_chains)
  \/ LocalRaises(values, local_number_chains)

\* n: number of samples in each Markov chain
ChainLength(values, local_number_chains) ==
  Len(values) \div local_number_chains

\* m: #processes x local_number_chains
TotalChains(size, local_number_chains) == size * local_number_chains

\* local_mean: what the process hands to the first MPI_Allreduce
LocalMean(stats_local) == SumC(stats_local.mean)

\* the value of the `mean` lambda given the reduced sum
MeanOf(global_sum, m) == CDivD(global_sum, D(m))

\* local_var[2]: what the process hands to the second MPI_Allreduce
LocalVar(stats_local, mean) ==
  << SumD([c \in 1..Len(stats_local.mean) |->
             CAbs2(CSub(stats_local.mean[c], mean))]),
     SumD(stats_local.var) >>

\* the `var` lambda without the test of m == 1
VarOfAnyM(global_var, m) ==
  <<DDiv(global_var[1], D(m)), DDiv(global_var[2], D(m))>>

\* the value of the `var` lambda given the reduced pair
VarOf(global_var, m) ==
  IF m = 1 THEN <<NaN, NaN>>
  ELSE <<DDiv(global_var[1], D(m)), DDiv(global_var[2], D(m))>>

\* Statistics without the clamp of a negative correlation to zero
StatsOfNoClamp(mean, var, n, m) ==
  IF ~IsNaN(var[1]) /\ ~IsNaN(var[2]) THEN
    [mean |-> mean,
     error_of_mean |-> DSqrt(DDiv(var[1], D(m))),
     variance |-> var[2],
     correlation |->
       DRound(DMul(<<1, 2>>, DSub(DMul(DDiv(var[1], var[2]), D(n)), One))),
     R |-> DSqrt(DAdd(DDiv(D(n - 1), D(n)), DDiv(var[1], var[2])))]
  ELSE
    [mean |-> mean, error_of_mean |-> Surd(NaN), variance |-> NaN,
     correlation |-> NaN, R |-> Surd(NaN)]

\* the Stats value built after both reductions
StatsOf(mean, var, n, m) ==
  IF ~IsNaN(var[1]) /\ ~IsNaN(var[2]) THEN
    LET t    == DDiv(var[1], var[2])
        c0   == DMul(<<1, 2>>, DSub(DMul(t, D(n)), One))
        corr == IF DLess(c0, Zero) THEN Zero ELSE c0
        R    == DSqrt(DAdd(DDiv(D(n - 1), D(n)), DDiv(var[1], var[2])))
    IN  [mean |-> mean,
         error_of_mean |-> DSqrt(DDiv(var[1], D(m))),
         variance |-> var[2],
         correlation |-> DRound(corr),
         R |-> R]
  ELSE
    [mean |-> mean, error_of_mean |-> Surd(NaN), variance |-> NaN,
     correlation |-> NaN, R |-> Surd(NaN)]

\* ------------------------------------------------------------------------
\* Statistics called by every process of MPI_COMM_WORLD
\* ------------------------------------------------------------------------
Ranks == 0..(nprocs - 1)

\* the number of ranks below p that hold samples
HoldersBelow(holds, p) == Cardinality({q \in 0..(p - 1) : holds[q]})

\* the Stats fields before Statistics has returned
NoStats ==
  [mean |-> CZero, error_of_mean |-> Surd(NaN), variance |-> NaN,
   correlation |-> NaN, R |-> Surd(NaN)]

NoLocalStats == [mean |-> <<>>, var |-> <<>>]

\* the VariationalExact variables while it is not run
ExUnused == ex_pc = <<>> /\ psi_pars = <<>> /\ sr = <<>> /\ delta = <<>>

\* the wrapper variables while no Sampler is constructed
SwUnused ==
  /\ sw_ctor = "" /\ sw_pars = <<>> /\ s_ = "null" /\ sw_pc = "unused"
  /\ sw_calls = <<>>

\* the variables of dim_ and GetConfig while they are not run
VeUnused ==
  /\ ve_nv = 0 /\ dim_ = 0 /\ ve_pc = "unused" /\ myints = <<>>
  /\ vsamp_ = <<>> /\ ve_count = 0 /\ ve_ub = {}

\* the sampler variables while no chain is run
MgUnused ==
  /\ psi_ = <<>> /\ nv_ = 0 /\ L_ = 0 /\ clusters_ = <<>> /\ v_ = <<>>
  /\ lt_ = <<>> /\ accept_ = <<>> /\ moves_ = <<>> /\ mg_pc = "unused"
  /\ sweep_i = 0 /\ last = <<>>

\* the driver variables while only Statistics is run
VmcUnused ==
  /\ cfg = [target |-> "energy", method |-> "Sr", sr_lsq_solver |-> "LLT",
            use_cholesky |-> "nullopt", n_iter |-> NullOpt, step_size |-> 1,
            nobs |-> 0, obsnames |-> <<>>, discarded_samples_on_init |-> 0,
            nsamples |-> 1, discarded_samples |-> -1]
  /\ vmc_pc = <<>> /\ params = <<>> /\ channel = <<>> /\ sync = <<>>
  /\ step = <<>> /\ adv_i = <<>> /\ nsampled = <<>> /\ nupdates = <<>>
  /\ error = <<>> /\ quota = <<>> /\ sampler = <<>> /\ mc_data = <<>>
  /\ observable_stats = <<>> /\ obs_i = <<>> /\ writer = <<>> /\ log = <<>>
  /\ ExUnused
  /\ MgUnused
  /\ SwUnused
  /\ VeUnused

\* Statistics is called collectively: the ranks are given the same number M
\* of chains and the same number L of samples, except that a rank may hold no
\* chains and a rank may hold no samples; at most MaxSamples samples in all
StatInit ==
  \E np \in 1..MaxProcs, M \in (-1)..MaxChains, L \in 0..MaxSamples :
  \E holds \in [0..(np - 1) -> BOOLEAN], chained \in [0..(np - 1) -> BOOLEAN] :
    /\ L * HoldersBelow(holds, np) <= MaxSamples
    /\ \E flat \in [1..(L * HoldersBelow(holds, np)) -> SampleValues] :
         input_values = [p \in 0..(np - 1) |->
           IF holds[p]
           THEN SubSeq(flat, L * HoldersBelow(holds, p) + 1,
                       L * HoldersBelow(holds, p) + L)
           ELSE <<>>]
    /\ nprocs = np
    /\ input_chains = [p \in 0..(np - 1) |-> IF chained[p] THEN M ELSE 0]
    /\ input_weights = [p \in 0..(np - 1) |-> <<>>]
    /\ stat_pc = [p \in 0..(np - 1) |-> "call"]
    /\ local_stats = [p \in 0..(np - 1) |-> NoLocalStats]
    /\ global_mean = [p \in 0..(np - 1) |-> CZero]
    /\ sent_mean = [p \in 0..(np - 1) |-> CZero]
    /\ sent_var = [p \in 0..(np - 1) |-> <<Zero, Zero>>]
    /\ ncollectives = [p \in 0..(np - 1) |-> 0]
    /\ stats = [p \in 0..(np - 1) |-> NoStats]
    /\ VmcUnused

\* rank q has handed its value to the first MPI_Allreduce
InFirstAllreduce(q) ==
  stat_pc[q] \in {"allreduce_mean", "allreduce_var", "returned"}

\* rank q has handed its value to the second MPI_Allreduce
InSecondAllreduce(q) == stat_pc[q] \in {"allreduce_var", "returned"}

\* rank p waits in the first MPI_Allreduce and every rank has entered it
FirstAllreduceComplete(p) ==
  stat_pc[p] = "allreduce_mean" /\ \A q \in Ranks : InFirstAllreduce(q)

\* rank p waits in the second MPI_Allreduce and every rank has entered it
SecondAllreduceComplete(p) ==
  stat_pc[p] = "allreduce_var" /\ \A q \in Ranks : InSecondAllreduce(q)

RECURSIVE ReduceC(_, _)
\* MPI_SUM of the complex contributions of the ranks below np
ReduceC(sent, np) ==
  IF np = 0 THEN CZero ELSE CAdd(ReduceC(sent, np - 1), sent[np - 1])

RECURSIVE ReduceD2(_, _)
\* MPI_SUM of the two-element contributions of the ranks below np
ReduceD2(sent, np) ==
  IF np = 0 THEN <<Zero, Zero>>
  ELSE << DAdd(ReduceD2(sent, np - 1)[1], sent[np - 1][1]),
          DAdd(ReduceD2(sent, np - 1)[2], sent[np - 1][2]) >>

\* Statistics from its entry up to the first MPI_Allreduce: the checks,
\* StatisticsLocal, n, m and local_mean
StatisticsCall(p) ==
  /\ stat_pc[p] = "call"
  /\ IF StatisticsRaises(input_values[p], input_chains[p])
     THEN /\ stat_pc' = [stat_pc EXCEPT ![p] = "raised"]
          /\ UNCHANGED <<local_stats, sent_mean, ncollectives>>
     ELSE /\ local_stats' = [local_stats EXCEPT
               ![p] = StatisticsLocal(input_values[p], input_chains[p])]
          /\ sent_mean' = [sent_mean EXCEPT ![p] = LocalMean(local_stats'[p])]
          /\ ncollectives' = [ncollectives EXCEPT ![p] = @ + 1]
          /\ stat_pc' = [stat_pc EXCEPT ![p] = "allreduce_mean"]
  /\ UNCHANGED <<nprocs, input_values, input_chains, input_weights, global_mean, sent_var,
                 stats, vmcVars, exVars, mgVars, swVars, veVars>>

\* the first MPI_Allreduce returns, with the m == 1 shortcut taken before the
\* second MPI_Allreduce instead of after it
AllreduceMeanShortcut(p) ==
  /\ FirstAllreduceComplete(p)
  /\ global_mean' = [global_mean EXCEPT
       ![p] = MeanOf(ReduceC(sent_mean, nprocs),
                     TotalChains(nprocs, input_chains[p]))]
  /\ IF TotalChains(nprocs, input_chains[p]) = 1
     THEN /\ stats' = [stats EXCEPT
               ![p] = StatsOf(global_mean'[p], <<NaN, NaN>>,
                              ChainLength(input_values[p], input_chains[p]), 1)]
          /\ stat_pc' = [stat_pc EXCEPT ![p] = "returned"]
          /\ UNCHANGED <<sent_var, ncollectives>>
     ELSE /\ sent_var' = [sent_var EXCEPT
               ![p] = LocalVar(local_stats[p], global_mean'[p])]
          /\ ncollectives' = [ncollectives EXCEPT ![p] = @ + 1]
          /\ stat_pc' = [stat_pc EXCEPT ![p] = "allreduce_var"]
          /\ UNCHANGED stats
  /\ UNCHANGED <<nprocs, input_values, input_chains, input_weights, local_stats, sent_mean,
                 vmcVars, exVars, mgVars, swVars, veVars>>

\* the first MPI_Allreduce returns; mean and local_var are computed and the
\* second MPI_Allreduce is entered
AllreduceMean(p) ==
  /\ FirstAllreduceComplete(p)
  /\ global_mean' = [global_mean EXCEPT
       ![p] = MeanOf(ReduceC(sent_mean, nprocs),
                     TotalChains(nprocs, input_chains[p]))]
  /\ sent_var' = [sent_var EXCEPT
       ![p] = LocalVar(local_stats[p], global_mean'[p])]
  /\ ncollectives' = [ncollectives EXCEPT ![p] = @ + 1]
  /\ stat_pc' = [stat_pc EXCEPT ![p] = "allreduce_var"]
  /\ UNCHANGED <<nprocs, input_values, input_chains, input_weights, local_stats, sent_mean,
                 stats, vmcVars, exVars, mgVars, swVars, veVars>>

\* the second MPI_Allreduce returns; the Stats value is built and returned
AllreduceVar(p) ==
  /\ SecondAllreduceComplete(p)
  /\ stats' = [stats EXCEPT
       ![p] = StatsOf(global_mean[p],
                      VarOf(ReduceD2(sent_var, nprocs),
                            TotalChains(nprocs, input_chains[p])),
                      ChainLength(input_values[p], input_chains[p]),
                      TotalChains(nprocs, input_chains[p]))]
  /\ stat_pc' = [stat_pc EXCEPT ![p] = "returned"]
  /\ UNCHANGED <<nprocs, input_values, input_chains, input_weights, local_stats, global_mean,
                 sent_mean, sent_var, ncollectives, vmcVars, exVars, mgVars, swVars, veVars>>

StatNext ==
  \E p \in Ranks : StatisticsCall(p) \/ AllreduceMean(p) \/ AllreduceVar(p)

SpecStatistics == StatInit /\ [][StatNext]_vars

\* ------------------------------------------------------------------------
\* StatisticsLocal called on its own by every process
\* ------------------------------------------------------------------------
\* one call of StatisticsLocal: its two checks, then the pair it returns
StatisticsLocalCall(p) ==
  /\ stat_pc[p] = "call"
  /\ IF LocalRaises(input_values[p], input_chains[p])
     THEN /\ stat_pc' = [stat_pc EXCEPT ![p] = "raised"]
          /\ UNCHANGED local_stats
     ELSE /\ local_stats' = [local_stats EXCEPT
               ![p] = StatisticsLocal(input_values[p], input_chains[p])]
          /\ stat_pc' = [stat_pc EXCEPT ![p] = "local_returned"]
  /\ UNCHANGED <<nprocs, input_values, input_chains, input_weights, global_mean, sent_mean,
                 sent_var, ncollectives, stats, vmcVars, exVars, mgVars, swVars, veVars>>

LocalNext == \E p \in Ranks : StatisticsLocalCall(p)

SpecStatisticsLocal == StatInit /\ [][LocalNext]_vars

\* ------------------------------------------------------------------------
\* WeightedStatistics called by every process of MPI_COMM_WORLD
\* ------------------------------------------------------------------------
\* Eigen's a.dot(b) for complex vectors: sum of conj(a_i) * b_i
Dot(a, b) == SumC([i \in 1..Len(a) |-> CMul(CConj(a[i]), b[i])])

\* the real vector weights seen as a complex one
AsComplex(weights) == [i \in 1..Len(weights) |-> <<weights[i], Zero>>]

\* the Eigen vector of complex doubles holding the sample values
CVec(values) == [i \in 1..Len(values) |-> C(values[i])]

\* values.dot(weights): what the process hands to the first SumOnNodes
WeightedLocalMean(values, weights) == Dot(CVec(values), AsComplex(weights))

\* (values.dot((values.array() * weights.array()).matrix())).real(): what the
\* process hands to the second SumOnNodes
WeightedLocalVar(values, weights) ==
  Dot(CVec(values),
      [i \in 1..Len(values) |-> CMulD(C(values[i]), weights[i])])[1]

\* the Stats value built from the two reduced sums
WeightedStatsOf(mean, var) ==
  [mean |-> mean, error_of_mean |-> Surd(NaN),
   variance |-> DSub(var, SurdSquare(CAbs(mean))),
   correlation |-> NaN, R |-> Surd(NaN)]

RECURSIVE Offset(_, _)
\* the number of samples of the ranks below p
Offset(lens, p) == IF p = 0 THEN 0 ELSE Offset(lens, p - 1) + lens[p - 1]

\* every rank is given as many weights as values, MaxWeighted samples at most
\* over all ranks
WeightedInit ==
  \E np \in 1..MaxProcs :
  \E lens \in [0..(np - 1) -> 0..MaxWeighted] :
    /\ Offset(lens, np) <= MaxWeighted
    /\ \E flatv \in [1..Offset(lens, np) -> SampleValues],
          flatw \in [1..Offset(lens, np) -> WeightValues] :
         /\ input_values = [p \in 0..(np - 1) |->
              [i \in 1..lens[p] |-> flatv[Offset(lens, p) + i]]]
         /\ input_weights = [p \in 0..(np - 1) |->
              [i \in 1..lens[p] |-> flatw[Offset(lens, p) + i]]]
    /\ nprocs = np
    /\ input_chains = [p \in 0..(np - 1) |-> 0]
    /\ stat_pc = [p \in 0..(np - 1) |-> "call"]
    /\ local_stats = [p \in 0..(np - 1) |-> NoLocalStats]
    /\ global_mean = [p \in 0..(np - 1) |-> CZero]
    /\ sent_mean = [p \in 0..(np - 1) |-> CZero]
    /\ sent_var = [p \in 0..(np - 1) |-> <<Zero, Zero>>]
    /\ ncollectives = [p \in 0..(np - 1) |-> 0]
    /\ stats = [p \in 0..(np - 1) |-> NoStats]
    /\ VmcUnused

\* rank q has handed its value to the first SumOnNodes
InFirstSum(q) == stat_pc[q] \in {"sum_mean", "sum_var", "weighted_returned"}

\* rank q has handed its value to the second SumOnNodes
InSecondSum(q) == stat_pc[q] \in {"sum_var", "weighted_returned"}

\* SumOnNodes is a blocking sum over every rank: rank p waits in the first
\* one and every rank has entered it
FirstSumComplete(p) ==
  stat_pc[p] = "sum_mean" /\ \A q \in Ranks : InFirstSum(q)

\* rank p waits in the second SumOnNodes and every rank has entered it
SecondSumComplete(p) ==
  stat_pc[p] = "sum_var" /\ \A q \in Ranks : InSecondSum(q)

\* WeightedStatistics from its entry up to the first SumOnNodes
WeightedStatisticsCall(p) ==
  /\ stat_pc[p] = "call"
  /\ sent_mean' = [sent_mean EXCEPT
       ![p] = WeightedLocalMean(input_values[p], input_weights[p])]
  /\ ncollectives' = [ncollectives EXCEPT ![p] = @ + 1]
  /\ stat_pc' = [stat_pc EXCEPT ![p] = "sum_mean"]
  /\ UNCHANGED <<nprocs, input_values, input_chains, input_weights,
                 local_stats, global_mean, sent_var, stats, vmcVars, exVars, mgVars, swVars, veVars>>

\* the first SumOnNodes returns with the sum in mean; var is computed and the
\* second SumOnNodes is entered
SumOnNodesMean(p) ==
  /\ FirstSumComplete(p)
  /\ global_mean' = [global_mean EXCEPT ![p] = ReduceC(sent_mean, nprocs)]
  /\ sent_var' = [sent_var EXCEPT
       ![p] = <<WeightedLocalVar(input_values[p], input_weights[p]), Zero>>]
  /\ ncollectives' = [ncollectives EXCEPT ![p] = @ + 1]
  /\ stat_pc' = [stat_pc EXCEPT ![p] = "sum_var"]
  /\ UNCHANGED <<nprocs, input_values, input_chains, input_weights,
                 local_stats, sent_mean, stats, vmcVars, exVars, mgVars, swVars, veVars>>

\* the second SumOnNodes returns; |mean|^2 is subtracted and the Stats value
\* is returned
SumOnNodesVar(p) ==
  /\ SecondSumComplete(p)
  /\ stats' = [stats EXCEPT
       ![p] = WeightedStatsOf(global_mean[p],
                              ReduceD2(sent_var, nprocs)[1])]
  /\ stat_pc' = [stat_pc EXCEPT ![p] = "weighted_returned"]
  /\ UNCHANGED <<nprocs, input_values, input_chains, input_weights,
                 local_stats, global_mean, sent_mean, sent_var, ncollectives,
                 vmcVars, exVars, mgVars, swVars, veVars>>

WeightedNext ==
  \E p \in Ranks :
    WeightedStatisticsCall(p) \/ SumOnNodesMean(p) \/ SumOnNodesVar(p)

SpecWeighted == WeightedInit /\ [][WeightedNext]_vars

\* ------------------------------------------------------------------------
\* VariationalMonteCarlo: Init, Reset, Run, Advance, ComputeObservables,
\* UpdateParameters
\* ------------------------------------------------------------------------
\* the values the model draws the constructor arguments from
Targets == {"energy", "variance", "momentum"}
Methods == {"Sr", "Gd"}
SolverNames == {"LLT", "ColPivHouseholder", "Gauss"}
CholeskyOptions == {"nullopt", "true", "false"}

\* the coordinator: the root of SendToAll
Root == 0

\* SR::SolverFromString(name).has_value()
SolverFromStringHasValue(name) == name \in {"LLT", "ColPivHouseholder"}

\* Init throws InvalidInputError for the arguments c: the use_cholesky test
\* and the solver lookup; the test of target_ builds an InvalidInputError
\* and drops it without a throw
InitRaises(c) ==
  \/ /\ c.use_cholesky # "nullopt"
     /\ c.use_cholesky = "true" /\ c.sr_lsq_solver # "LLT"
  \/ /\ c.method # "Gd"
     /\ ~SolverFromStringHasValue(c.sr_lsq_solver)

\* std::ceil of a finite double, as an integer
DCeil(a) == -((-a[1]) \div a[2])

\* the conversion of a finite non-negative double to int: truncation
DToInt(a) == a[1] \div a[2]

\* the quota with the quotient truncated instead of rounded up
NSamplesNodeTruncated(nsamples, totalnodes) ==
  DToInt(DDiv(D(nsamples), D(totalnodes)))

\* nsamples_node_ = int(std::ceil(double(nsamples_) / double(totalnodes_)))
NSamplesNode(nsamples, totalnodes) ==
  DCeil(DDiv(D(nsamples), D(totalnodes)))

\* ndiscard_: 0.1 * nsamples_node_ converted to int when discarded_samples is
\* -1, discarded_samples otherwise (0.1 is taken as 1/10: the double 0.1
\* exceeds 1/10 by less than 1e-17, which moves no product across an integer)
NDiscard(discarded_samples, nsamples_node) ==
  IF discarded_samples = -1 THEN DToInt(DMul(<<1, 10>>, D(nsamples_node)))
  ELSE discarded_samples

\* the branch of Advance that throws std::runtime_error
AdvanceRaises(c) == c.target # "energy" /\ c.target # "variance"

\* the loop condition of Run for the loop variable st
RunContinues(c, st) == c.n_iter = NullOpt \/ st < c.n_iter

\* rank p waits in a blocking collective that every rank has entered
CollectiveComplete(p) == \A q \in Ranks : sync[q] >= sync[p]

\* UpdateParameters without its MPI_Barrier
UpdateBarrierSkipped(p) == TRUE

\* the MPI_Barrier that ends UpdateParameters lets rank p go
UpdateBarrierComplete(p) == CollectiveComplete(p)

\* a writer emplaced on every rank
HasWriterOnEveryRank(p) == TRUE

\* Run emplaces the JsonOutputWriter: mynode_ == 0
HasWriter(p) == p = 0

\* the key of observable_stats_ for the Hamiltonian
EnergyKey == <<"Energy", 0>>

\* the names the observables are registered under unless the run chooses
\* them: n distinct names, none of them "Energy"
DefaultNames(n) == [i \in 1..n |-> <<"Obs", i - 1>>]

\* the names AddObservable may be called with: "Energy" and two others
ObsNames == {EnergyKey, <<"Obs", 0>>, <<"Obs", 1>>}

\* the key obsnames_[i] of the i-th registered observable (i from 0)
ObsKey(i) == cfg.obsnames[i + 1]

\* observable_stats_[key] = value
Put(map, key, value) ==
  [k \in (DOMAIN map) \cup {key} |-> IF k = key THEN value ELSE map[k]]

\* the orders in which the entries of a StatsMap, a std::unordered_map, may
\* be visited: the container keeps no order, any arrangement of its keys
ReportOrders(map) ==
  { order \in [1..Cardinality(DOMAIN map) -> DOMAIN map] :
      \A i, j \in DOMAIN order : i # j => order[i] # order[j] }

\* what a Stats value was computed from: the operator whose local values
\* were taken (ham_ or the i-th observable), the stored samples (their
\* generation and the parameters that produced them), the parameters psi_
\* held when the local values were evaluated, and the number of updates
\* installed by then
StatsFrom(p, op) ==
  [op |-> op, gen |-> mc_data[p].gen, sample_pars |-> mc_data[p].pars,
   pars |-> params[p], updates |-> nupdates[p]]

\* the state of a driver process before its constructor has run
VmcStart(np) ==
  /\ nprocs = np
  /\ vmc_pc = [p \in 0..(np - 1) |-> "construct"]
  /\ params = [p \in 0..(np - 1) |-> 0]
  /\ channel = [p \in 0..(np - 1) |-> <<>>]
  /\ sync = [p \in 0..(np - 1) |-> 0]
  /\ step = [p \in 0..(np - 1) |-> 0]
  /\ adv_i = [p \in 0..(np - 1) |-> 0]
  /\ nsampled = [p \in 0..(np - 1) |-> 0]
  /\ nupdates = [p \in 0..(np - 1) |-> 0]
  /\ error = [p \in 0..(np - 1) |-> "none"]
  /\ quota = [p \in 0..(np - 1) |-> [nsamples_node |-> 0, ndiscard |-> 0]]
  /\ sampler = [p \in 0..(np - 1) |-> [resets |-> 0, init_sweeps |-> 0]]
  /\ mc_data = [p \in 0..(np - 1) |->
                  [gen |-> 0, pars |-> 0, discarded |-> 0, retained |-> 0]]
  /\ observable_stats = [p \in 0..(np - 1) |-> <<>>]
  /\ obs_i = [p \in 0..(np - 1) |-> 0]
  /\ writer = [p \in 0..(np - 1) |-> FALSE]
  /\ log = [p \in 0..(np - 1) |-> <<>>]
  /\ input_values = <<>> /\ input_chains = <<>> /\ input_weights = <<>>
  /\ stat_pc = <<>>
  /\ local_stats = <<>> /\ global_mean = <<>> /\ sent_mean = <<>>
  /\ sent_var = <<>> /\ ncollectives = <<>> /\ stats = <<>>
  /\ ExUnused
  /\ MgUnused
  /\ SwUnused
  /\ VeUnused

\* the constructor arguments that decide whether Init throws, with Run
\* arguments n_iter and step_size
VmcInit ==
  \E np \in 1..MaxProcs :
    /\ cfg \in [target : Targets, method : Methods,
                sr_lsq_solver : SolverNames, use_cholesky : CholeskyOptions,
                n_iter : 1..MaxIter, step_size : 1..MaxStepSize,
                nobs : {0}, obsnames : {<<>>},
                discarded_samples_on_init : {0},
                nsamples : {1}, discarded_samples : {-1}]
    /\ VmcStart(np)

\* valid constructor arguments; Run with and without n_iter, with step_size,
\* registered observables and on-init sweeps
RunInit ==
  \E np \in 1..MaxProcs, n \in 0..MaxObs :
    /\ cfg \in [target : {"energy", "variance"}, method : {"Sr"},
                sr_lsq_solver : {"LLT"}, use_cholesky : {"nullopt"},
                n_iter : {NullOpt} \cup (1..MaxIter),
                step_size : 1..MaxStepSize,
                nobs : {n}, obsnames : {DefaultNames(n)},
                discarded_samples_on_init : 0..MaxInitSweeps,
                nsamples : {1}, discarded_samples : {-1}]
    /\ VmcStart(np)

\* the constructor arguments nsamples and discarded_samples
QuotaInit ==
  \E np \in 1..MaxProcs :
    /\ cfg \in [target : {"energy"}, method : {"Sr"},
                sr_lsq_solver : {"LLT"}, use_cholesky : {"nullopt"},
                n_iter : {1}, step_size : {1}, nobs : {0},
                obsnames : {<<>>}, discarded_samples_on_init : {0},
                nsamples : 1..MaxNSamples,
                discarded_samples : (-1)..MaxDiscard]
    /\ VmcStart(np)

\* valid constructor arguments, up to MaxNames observables registered under
\* any names, and Run with an iteration count
NamesInit ==
  \E np \in 1..MaxProcs, n \in 0..MaxNames :
    /\ cfg \in [target : {"energy"}, method : {"Sr"},
                sr_lsq_solver : {"LLT"}, use_cholesky : {"nullopt"},
                n_iter : 1..MaxIter, step_size : 1..MaxStepSize,
                nobs : {n}, obsnames : [1..n -> ObsNames],
                discarded_samples_on_init : {0},
                nsamples : {1}, discarded_samples : {-1}]
    /\ VmcStart(np)

\* the constructor: Init up to its MPI_Barrier
Construct(p) ==
  /\ vmc_pc[p] = "construct"
  /\ quota' = [quota EXCEPT ![p] =
       [nsamples_node |-> NSamplesNode(cfg.nsamples, nprocs),
        ndiscard |-> NDiscard(cfg.discarded_samples,
                              NSamplesNode(cfg.nsamples, nprocs))]]
  /\ IF InitRaises(cfg)
     THEN /\ vmc_pc' = [vmc_pc EXCEPT ![p] = "raised"]
          /\ error' = [error EXCEPT ![p] = "InvalidInputError"]
          /\ UNCHANGED sync
     ELSE /\ vmc_pc' = [vmc_pc EXCEPT ![p] = "init_barrier"]
          /\ sync' = [sync EXCEPT ![p] = @ + 1]
          /\ UNCHANGED error
  /\ UNCHANGED <<cfg, params, channel, step, adv_i, nsampled, nupdates,
                 sampler, mc_data, observable_stats, obs_i, writer, log,
                 statVars, exVars, mgVars, swVars, veVars>>

\* Reset, called once on the constructed driver before Run: opt_.Reset() and
\* InitSweeps, that is sampler_.Reset() and ninitsamples_ sweeps
Reset(p) ==
  /\ vmc_pc[p] = "init_barrier"
  /\ CollectiveComplete(p)
  /\ sampler[p].resets = 0
  /\ sampler' = [sampler EXCEPT ![p] =
       [resets |-> 1, init_sweeps |-> cfg.discarded_samples_on_init]]
  /\ UNCHANGED <<cfg, vmc_pc, params, channel, sync, step, adv_i, nsampled,
                 nupdates, error, quota, mc_data, observable_stats, obs_i,
                 writer, log, statVars, exVars, mgVars, swVars, veVars>>

\* the MPI_Barrier of Init returns, the constructor returns, the observables
\* are registered and Run is called: the writer, opt_.Reset() and the first
\* test of the loop condition
Run(p) ==
  /\ vmc_pc[p] = "init_barrier"
  /\ CollectiveComplete(p)
  /\ writer' = [writer EXCEPT ![p] = HasWriter(p)]
  /\ step' = [step EXCEPT ![p] = 0]
  /\ adv_i' = [adv_i EXCEPT ![p] = 0]
  /\ vmc_pc' = [vmc_pc EXCEPT
       ![p] = IF RunContinues(cfg, 0) THEN "advance" ELSE "done"]
  /\ UNCHANGED <<cfg, params, channel, sync, nsampled, nupdates, error,
                 quota, sampler, mc_data, observable_stats, obs_i, log,
                 statVars, exVars, mgVars, swVars, veVars>>

\* one pass of the loop of Advance up to the first collective: ComputeSamples
\* (ndiscard_ sweeps dropped, nsamples_node_ samples kept), LocalValues and
\* the entry into Statistics; a run without n_iter is followed for MaxSteps
\* steps
AdvanceSample(p) ==
  /\ vmc_pc[p] = "advance"
  /\ cfg.n_iter # NullOpt \/ nsampled[p] < MaxSteps
  /\ nsampled' = [nsampled EXCEPT ![p] = @ + 1]
  /\ mc_data' = [mc_data EXCEPT ![p] =
       [gen |-> nsampled[p] + 1, pars |-> params[p],
        discarded |-> quota[p].ndiscard,
        retained |-> quota[p].nsamples_node]]
  /\ sync' = [sync EXCEPT ![p] = @ + 1]
  /\ vmc_pc' = [vmc_pc EXCEPT ![p] = "statistics"]
  /\ UNCHANGED <<cfg, params, channel, step, adv_i, nupdates, error, quota,
                 sampler, observable_stats, obs_i, writer, log, statVars, exVars, mgVars, swVars, veVars>>

\* Statistics returns and is stored under "Energy"; the gradient for
\* target_, then UpdateParameters up to SendToAll: the coordinator sends its
\* updated vector to every other rank, installs it and enters the
\* MPI_Barrier; another rank waits for the vector
AdvanceUpdate(p) ==
  /\ vmc_pc[p] = "statistics"
  /\ CollectiveComplete(p)
  /\ observable_stats' = [observable_stats EXCEPT
       ![p] = Put(observable_stats[p], EnergyKey, StatsFrom(p, "ham_"))]
  /\ IF AdvanceRaises(cfg)
     THEN /\ vmc_pc' = [vmc_pc EXCEPT ![p] = "raised"]
          /\ error' = [error EXCEPT ![p] = "runtime_error"]
          /\ UNCHANGED <<params, channel, sync, nupdates>>
     ELSE /\ UNCHANGED error
          /\ IF p = Root
             THEN \E pars \in 0..MaxParam :
                    /\ channel' = [q \in Ranks |->
                         IF q = Root THEN channel[q]
                         ELSE Append(channel[q], pars)]
                    /\ params' = [params EXCEPT ![p] = pars]
                    /\ nupdates' = [nupdates EXCEPT ![p] = @ + 1]
                    /\ sync' = [sync EXCEPT ![p] = @ + 1]
                    /\ vmc_pc' = [vmc_pc EXCEPT ![p] = "update_barrier"]
             ELSE /\ vmc_pc' = [vmc_pc EXCEPT ![p] = "send_to_all"]
                  /\ UNCHANGED <<params, channel, sync, nupdates>>
  /\ UNCHANGED <<cfg, step, adv_i, nsampled, quota, sampler, mc_data, obs_i,
                 writer, log, statVars, exVars, mgVars, swVars, veVars>>

\* SendToAll returns on a rank other than the coordinator with the
\* coordinator's vector; SetParameters installs it; MPI_Barrier is entered
ReceiveParameters(p) ==
  /\ vmc_pc[p] = "send_to_all"
  /\ channel[p] # <<>>
  /\ params' = [params EXCEPT ![p] = Head(channel[p])]
  /\ channel' = [channel EXCEPT ![p] = Tail(@)]
  /\ nupdates' = [nupdates EXCEPT ![p] = @ + 1]
  /\ sync' = [sync EXCEPT ![p] = @ + 1]
  /\ vmc_pc' = [vmc_pc EXCEPT ![p] = "update_barrier"]
  /\ UNCHANGED <<cfg, step, adv_i, nsampled, error, quota, sampler, mc_data,
                 observable_stats, obs_i, writer, log, statVars, exVars, mgVars, swVars, veVars>>

\* the log after the report of one pass of the loop of Run: WriteLog(step,
\* obs_data) and WriteState(step, psi_) where a writer exists
Report(p) == IF writer[p] THEN Append(log[p], step[p]) ELSE log[p]

\* the MPI_Barrier of UpdateParameters returns: the next pass of the loop of
\* Advance, or after its last pass ComputeObservables: with an observable
\* registered the Statistics of the first one is entered, with none the
\* report is made and the MPI_Barrier of Run is entered
EndUpdate(p) ==
  /\ vmc_pc[p] = "update_barrier"
  /\ UpdateBarrierComplete(p)
  /\ IF adv_i[p] + 1 < cfg.step_size
     THEN /\ adv_i' = [adv_i EXCEPT ![p] = @ + 1]
          /\ vmc_pc' = [vmc_pc EXCEPT ![p] = "advance"]
          /\ UNCHANGED <<sync, log>>
     ELSE /\ adv_i' = [adv_i EXCEPT ![p] = 0]
          /\ sync' = [sync EXCEPT ![p] = @ + 1]
          /\ IF 0 < cfg.nobs
             THEN /\ vmc_pc' = [vmc_pc EXCEPT ![p] = "obs_statistics"]
                  /\ UNCHANGED log
             ELSE /\ vmc_pc' = [vmc_pc EXCEPT ![p] = "run_barrier"]
                  /\ log' = [log EXCEPT ![p] = Report(p)]
  /\ obs_i' = [obs_i EXCEPT ![p] = 0]
  /\ UNCHANGED <<cfg, params, channel, step, nsampled, nupdates, error, quota,
                 sampler, mc_data, observable_stats, writer, statVars, exVars, mgVars, swVars, veVars>>

\* ComputeObservables: the Statistics of observable obs_i returns and is
\* stored under its name; the Statistics of the next observable is entered,
\* or after the last one the report is made and the MPI_Barrier of Run is
\* entered
ComputeObservables(p) ==
  /\ vmc_pc[p] = "obs_statistics"
  /\ CollectiveComplete(p)
  /\ observable_stats' = [observable_stats EXCEPT
       ![p] = Put(observable_stats[p], ObsKey(obs_i[p]),
                  StatsFrom(p, <<"obs_", obs_i[p]>>))]
  /\ obs_i' = [obs_i EXCEPT ![p] = @ + 1]
  /\ sync' = [sync EXCEPT ![p] = @ + 1]
  /\ IF obs_i[p] + 1 < cfg.nobs
     THEN UNCHANGED <<vmc_pc, log>>
     ELSE /\ vmc_pc' = [vmc_pc EXCEPT ![p] = "run_barrier"]
          /\ log' = [log EXCEPT ![p] = Report(p)]
  /\ UNCHANGED <<cfg, params, channel, step, adv_i, nsampled, nupdates, error,
                 quota, sampler, mc_data, writer, statVars, exVars, mgVars, swVars, veVars>>

\* the MPI_Barrier of Run returns: step += step_size and the loop condition
EndIteration(p) ==
  /\ vmc_pc[p] = "run_barrier"
  /\ CollectiveComplete(p)
  /\ step' = [step EXCEPT ![p] = @ + cfg.step_size]
  /\ vmc_pc' = [vmc_pc EXCEPT
       ![p] = IF RunContinues(cfg, step'[p]) THEN "advance" ELSE "done"]
  /\ UNCHANGED <<cfg, params, channel, sync, adv_i, nsampled, nupdates, error,
                 quota, sampler, mc_data, observable_stats, obs_i, writer,
                 log, statVars, exVars, mgVars, swVars, veVars>>

VmcNext ==
  \E p \in Ranks :
    \/ Construct(p)
    \/ Reset(p)
    \/ Run(p)
    \/ AdvanceSample(p)
    \/ AdvanceUpdate(p)
    \/ ReceiveParameters(p)
    \/ EndUpdate(p)
    \/ ComputeObservables(p)
    \/ EndIteration(p)

SpecVMC == VmcInit /\ [][VmcNext]_vars

\* the driver run with valid arguments
SpecRun == RunInit /\ [][VmcNext]_vars

\* the driver constructed for every sample count
SpecQuota == QuotaInit /\ [][VmcNext]_vars

\* the driver run with observables of any names
SpecNames == NamesInit /\ [][VmcNext]_vars

\* ------------------------------------------------------------------------
\* VariationalExact::CheckDerLog
\* ------------------------------------------------------------------------
\* pars(i) += d  (i from 1)
Bump(v, i, d) == [k \in 1..Len(v) |-> IF k = i THEN v[k] + d ELSE v[k]]

RECURSIVE CheckDerLogLoop(_, _, _)
\* the parameters psi_ holds after the passes i .. npar_ of the loop, given
\* the local vector pars and the vector psi that psi_ holds before pass i:
\* pars(i) += eps, SetParameters, pars(i) -= 2 * eps, SetParameters,
\* pars(i) += eps
CheckDerLogLoop(pars, psi, i) ==
  IF i > Len(pars) THEN psi
  ELSE CheckDerLogLoop(Bump(Bump(Bump(pars, i, 1), i, -2), i, 1),
                       Bump(Bump(pars, i, 1), i, -2),
                       i + 1)

\* every rank holds a machine with up to MaxNpar parameters
CheckDerLogInit ==
  \E np \in 1..MaxProcs :
    /\ nprocs = np
    /\ psi_pars \in [0..(np - 1) ->
                       UNION { [1..n -> 0..MaxParam] : n \in 0..MaxNpar }]
    /\ ex_pc = [p \in 0..(np - 1) |-> "ready"]
    /\ sr = <<>> /\ delta = <<>>
    /\ input_values = <<>> /\ input_chains = <<>> /\ input_weights = <<>>
    /\ stat_pc = <<>>
    /\ local_stats = <<>> /\ global_mean = <<>> /\ sent_mean = <<>>
    /\ sent_var = <<>> /\ ncollectives = <<>> /\ stats = <<>>
    /\ cfg = <<>>
    /\ vmc_pc = <<>> /\ params = <<>> /\ channel = <<>> /\ sync = <<>>
    /\ step = <<>> /\ adv_i = <<>> /\ nsampled = <<>> /\ nupdates = <<>>
    /\ error = <<>> /\ quota = <<>> /\ sampler = <<>> /\ mc_data = <<>>
    /\ observable_stats = <<>> /\ obs_i = <<>> /\ writer = <<>>
    /\ log = <<>>
    /\ MgUnused
    /\ SwUnused
    /\ VeUnused

\* one call of CheckDerLog on rank p
CheckDerLog(p) ==
  /\ ex_pc[p] = "ready"
  /\ psi_pars' = [q \in Ranks |->
       IF q = p THEN CheckDerLogLoop(psi_pars[p], psi_pars[p], 1)
       ELSE psi_pars[q]]
  /\ ex_pc' = [ex_pc EXCEPT ![p] = "checked"]
  /\ UNCHANGED <<sr, delta, statVars, vmcVars, mgVars, swVars, veVars>>

CheckDerLogNext == \E p \in Ranks : CheckDerLog(p)

SpecCheckDerLog == CheckDerLogInit /\ [][CheckDerLogNext]_vars

\* ------------------------------------------------------------------------
\* VariationalExact::Gradient and the solve of UpdateParameters, for a
\* machine with one parameter (Ok_ has one column, S is 1 x 1)
\* ------------------------------------------------------------------------
RECURSIVE SumInts(_)
\* norm: the sum of the unnormalised |psi|^2
SumInts(w) == IF w = <<>> THEN 0 ELSE SumInts(SubSeq(w, 1, Len(w) - 1)) + w[Len(w)]

\* psi2_ /= norm
Psi2(w) == [j \in 1..Len(w) |-> DDiv(D(w[j]), D(SumInts(w)))]

\* the mean of the column x under psi2_: sum of x(j) * psi2_(j)
MeanUnder(x, psi2) == SumC([j \in 1..Len(x) |-> CMulD(x[j], psi2[j])])

\* the column x with its mean under psi2_ subtracted from every row
Centered(x, psi2) == [j \in 1..Len(x) |-> CSub(x[j], MeanUnder(x, psi2))]

\* what Gradient leaves for UpdateParameters, from the log-derivatives
\* derlog and the local energies eloc of the configurations with
\* unnormalised |psi|^2 w
GradientOf(derlog, eloc, w, shift) ==
  [Ok |-> Centered(CVec(derlog), Psi2(w)),
   elocs |-> Centered(CVec(eloc), Psi2(w)),
   psi2 |-> Psi2(w),
   shift |-> shift]

\* b = Ok_.adjoint() * psi2_.asDiagonal() * elocs_
RhsB(s) ==
  SumC([j \in 1..Len(s.Ok) |->
          CMul(CConj(s.Ok[j]), CMulD(s.elocs[j], s.psi2[j]))])

\* the direct path: S = Ok_.adjoint() * psi2_.asDiagonal() * Ok_ plus
\* sr_diag_shift_ on the diagonal
SDirect(s) ==
  DAdd(SumC([j \in 1..Len(s.Ok) |->
               CMul(CConj(s.Ok[j]), CMulD(s.Ok[j], s.psi2[j]))])[1],
       s.shift)

\* the iterative path: the MatrixReplacement with Ok_ attached, shift
\* sr_diag_shift_ and scale 1 / (nsamp * totalnodes_), whose product with x
\* is scale * Ok^H (Ok x) + shift * x
SIterative(s, totalnodes) ==
  DAdd(DMul(DDiv(One, D(Len(s.Ok) * totalnodes)),
            SumC([j \in 1..Len(s.Ok) |-> CMul(CConj(s.Ok[j]), s.Ok[j])])[1]),
       s.shift)

\* the solution deltaP of S * deltaP = b for a 1 x 1 system: llt.solve(b),
\* and the conjugate gradient once it has converged
Solve(S, b) == CDivD(b, S)

\* the solve has not run on this path
NotSolved == [done |-> FALSE, S |-> Zero, deltaP |-> CZero]

\* the outcome of Gradient for every configuration count up to MaxDim
SolveInit ==
  \E np \in 1..MaxProcs, nsamp \in 1..MaxDim, shift \in ShiftValues :
  \E derlog \in [1..nsamp -> SampleValues], eloc \in [1..nsamp -> SampleValues],
     w \in [1..nsamp -> PsiWeights] :
    /\ nprocs = np
    /\ sr = GradientOf(derlog, eloc, w, shift)
    /\ delta = [direct |-> NotSolved, iterative |-> NotSolved]
    /\ ex_pc = <<>> /\ psi_pars = <<>>
    /\ input_values = <<>> /\ input_chains = <<>> /\ input_weights = <<>>
    /\ stat_pc = <<>>
    /\ local_stats = <<>> /\ global_mean = <<>> /\ sent_mean = <<>>
    /\ sent_var = <<>> /\ ncollectives = <<>> /\ stats = <<>>
    /\ cfg = <<>>
    /\ vmc_pc = <<>> /\ params = <<>> /\ channel = <<>> /\ sync = <<>>
    /\ step = <<>> /\ adv_i = <<>> /\ nsampled = <<>> /\ nupdates = <<>>
    /\ error = <<>> /\ quota = <<>> /\ sampler = <<>> /\ mc_data = <<>>
    /\ observable_stats = <<>> /\ obs_i = <<>> /\ writer = <<>>
    /\ log = <<>>
    /\ MgUnused
    /\ SwUnused
    /\ VeUnused

\* UpdateParameters with use_iterative_ false
SolveDirect ==
  /\ ~delta.direct.done
  /\ delta' = [direct |-> [done |-> TRUE, S |-> SDirect(sr),
                           deltaP |-> Solve(SDirect(sr), RhsB(sr))],
               iterative |-> delta.iterative]
  /\ UNCHANGED <<ex_pc, psi_pars, sr, statVars, vmcVars, mgVars, swVars, veVars>>

\* UpdateParameters with use_iterative_ true
SolveIterative ==
  /\ ~delta.iterative.done
  /\ delta' = [direct |-> delta.direct,
               iterative |-> [done |-> TRUE, S |-> SIterative(sr, nprocs),
                              deltaP |-> Solve(SIterative(sr, nprocs),
                                               RhsB(sr))]]
  /\ UNCHANGED <<ex_pc, psi_pars, sr, statVars, vmcVars, mgVars, swVars, veVars>>

SolveNext == SolveDirect \/ SolveIterative

SpecSolve == SolveInit /\ [][SolveNext]_vars

\* ------------------------------------------------------------------------
\* MetropolisGlobal (NetKet/Sampler/metropolis_global.hpp) over an
\* RbmMultival machine.  The machine parameters are real and are kept as
\* integer multiples of ln 2, so that exp and cosh of every quantity the
\* sampler computes are exact rationals.  A logarithm is a pair <<k, r>>
\* that stands for k * ln 2 + ln r, r a positive rational.
\* ------------------------------------------------------------------------

\* hilbert_.LocalStates() of a spin-1/2 site
LocalStates == <<-1, 1>>

\* hilbert_.LocalSize()
LocalSize == Len(LocalStates)

\* confindex_[x]: std::map::operator[] yields 0 for a key it does not hold
ConfIndex(x) ==
  IF \E k \in 1..LocalSize : LocalStates[k] = x
  THEN (CHOOSE k \in 1..LocalSize : LocalStates[k] = x) - 1
  ELSE 0

RECURSIVE Pow2(_)
Pow2(k) == IF k = 0 THEN 1 ELSE 2 * Pow2(k - 1)

\* cosh(theta * ln 2) = (4^|theta| + 1) / 2^(|theta| + 1)
Cosh(theta) == Norm(Pow2(2 * Abs(theta)) + 1, Pow2(Abs(theta) + 1))

RECURSIVE LnCoshSum(_)
\* lncosh(thetas, ln); ln.sum()
LnCoshSum(thetas) ==
  IF thetas = <<>> THEN <<0, One>>
  ELSE LET rest == LnCoshSum(SubSeq(thetas, 1, Len(thetas) - 1))
       IN  <<rest[1], DMul(rest[2], Cosh(thetas[Len(thetas)]))>>

\* x - y of two logarithms
LogSub(x, y) == <<x[1] - y[1], DDiv(x[2], y[2])>>

\* std::exp of a logarithm, as a double: overflow to +inf above 1024 ln 2
\* and underflow to 0 below -1075 ln 2 (the exponents of the model are
\* either small or far beyond both)
StdExp(x) ==
  IF x[1] >= 1024 THEN PosInf
  ELSE IF x[1] <= -1075 THEN Zero
  ELSE IF x[1] >= 0 THEN DMul(D(Pow2(x[1])), x[2])
  ELSE DDiv(x[2], D(Pow2(-x[1])))

\* std::norm of a real number
StdNorm(x) == DMul(x, x)

RECURSIVE ThetaSum(_, _, _, _)
\* (W_.transpose() * vtilde_)(h), the rows of the sites i..nv-1: vtilde_ has
\* a one in row ls_ * i + j exactly when localstates[j] == v(i)
ThetaSum(psi, v, h, i) ==
  IF i >= nv_ THEN 0
  ELSE (IF \E k \in 1..LocalSize : LocalStates[k] = v[i]
        THEN psi.W[LocalSize * i + ConfIndex(v[i])][h] ELSE 0)
       + ThetaSum(psi, v, h, i + 1)

\* RbmMultival::ComputeTheta: theta = W^T vtilde + b
ComputeTheta(psi, v) ==
  [h \in 1..Len(psi.b) |-> ThetaSum(psi, v, h, 0) + psi.b[h]]

\* RbmMultival::InitLookup
InitLookup(psi, v) == ComputeTheta(psi, v)

RECURSIVE UpdateLookup(_, _, _, _, _)
\* RbmMultival::UpdateLookup: for every changed site the row of its old
\* value (read from v, which is not changed yet) leaves theta and the row of
\* its new value enters
UpdateLookup(psi, v, tochange, newconf, lt) ==
  IF tochange = <<>> THEN lt
  ELSE LET sf == tochange[1]
           oldtilde == ConfIndex(v[sf])
           newtilde == ConfIndex(newconf[1])
           shifted == [h \in 1..Len(lt) |->
                         lt[h] - psi.W[LocalSize * sf + oldtilde][h]
                               + psi.W[LocalSize * sf + newtilde][h]]
       IN  UpdateLookup(psi, v, Tail(tochange), Tail(newconf), shifted)

RECURSIVE BiasDiff(_, _, _, _)
\* the a_ terms of LogValDiff
BiasDiff(psi, v, tochange, newconf) ==
  IF tochange = <<>> THEN 0
  ELSE psi.a[LocalSize * tochange[1] + ConfIndex(newconf[1])]
       - psi.a[LocalSize * tochange[1] + ConfIndex(v[tochange[1]])]
       + BiasDiff(psi, v, Tail(tochange), Tail(newconf))

\* RbmMultival::LogValDiff(v, tochange, newconf, lt), the overload that
\* starts from the lookup table: thetasnew_ is lt.V(0) moved by the same
\* rows as in UpdateLookup
LogValDiff(psi, v, tochange, newconf, lt) ==
  IF tochange = <<>> THEN <<0, One>>
  ELSE LET thetasnew == UpdateLookup(psi, v, tochange, newconf, lt)
           cosh == LogSub(LnCoshSum(thetasnew), LnCoshSum(lt))
       IN  <<BiasDiff(psi, v, tochange, newconf) + cosh[1], cosh[2]>>

\* RbmMultival::LogVal(v): the log-amplitude computed from scratch
LogVal(psi, v) ==
  LET ln == LnCoshSum(ComputeTheta(psi, v))
      RECURSIVE Bias(_)
      Bias(i) == IF i >= nv_ THEN 0
                 ELSE psi.a[LocalSize * i + ConfIndex(v[i])] + Bias(i + 1)
  IN  <<Bias(0) + ln[1], ln[2]>>

RECURSIVE UpdateConf(_, _, _)
\* hilbert_.UpdateConf: v(tochange[s]) = newconf[s] for every s
UpdateConf(v, tochange, newconf) ==
  IF tochange = <<>> THEN v
  ELSE UpdateConf([i \in DOMAIN v |-> IF i = tochange[1] THEN newconf[1]
                                      ELSE v[i]],
                  Tail(tochange), Tail(newconf))

\* L_ = int(std::sqrt(nv_) + 0.5): the integer nearest to the square root
RoundSqrt(nv) ==
  CHOOSE L \in 0..nv : 4 * L * L - 4 * L + 1 <= 4 * nv
                       /\ 4 * nv < 4 * L * L + 4 * L + 1

\* graph.AllDistances() of an open chain of sites
Dist(i, j) == Abs(i - j)

RECURSIVE ClustersFrom(_, _, _)
\* MetropolisGlobal::GenerateClusters: the pairs {i, j} in the order of the
\* double loop, k = i * nv + j
ClustersFrom(nv, dmax, k) ==
  IF k >= nv * nv THEN <<>>
  ELSE LET i == k \div nv
           j == k % nv
       IN  (IF Dist(i, j) <= dmax /\ i # j THEN << <<i, j>> >> ELSE <<>>)
           \o ClustersFrom(nv, dmax, k + 1)

GenerateClusters(nv, dmax) == ClustersFrom(nv, dmax, 0)

\* the machines of the model: one hidden unit coupled to the up state of
\* site 0 with weight w, and a visible bias av on the up state of the last
\* site
Machines(nv) ==
  { [W |-> [r \in 0..(LocalSize * nv - 1) |->
              << IF r = 1 THEN w ELSE 0 >>],
     a |-> [r \in 0..(LocalSize * nv - 1) |->
              IF r = LocalSize * (nv - 1) + 1 THEN av ELSE 0],
     b |-> <<0>>] : w \in WValues, av \in AValues }

\* the configurations hilbert_.RandomVals draws from, for spins whose total
\* magnetisation is fixed: nup of the nv sites are up
Configurations(nv, nup) ==
  { v \in [0..(nv - 1) -> {LocalStates[k] : k \in 1..LocalSize}] :
      Cardinality({i \in 0..(nv - 1) : v[i] = 1}) = nup }

\* the number of up sites of a configuration
NUp(v) == Cardinality({i \in DOMAIN v : v[i] = 1})

ZeroCounters == [k \in 0..1 |-> 0]

\* `last` after an operation op that made no proposal: the operation, and
\* the configuration, lookup table and counters it started from
NoProposal(op) ==
  [op |-> op, proposed |-> FALSE, v |-> v_, lt |-> lt_, accept |-> accept_,
   moves |-> moves_]

\* the constructor: Init, GenerateClusters, Reset(true)
MgInit ==
  \E nv \in 1..MaxNv, nup \in 1..MaxUp :
  \E psi \in Machines(nv), v \in Configurations(nv, nup) :
    /\ nv_ = nv
    /\ psi_ = psi
    /\ L_ = RoundSqrt(nv)
    /\ clusters_ = GenerateClusters(nv, DefaultDmax)
    /\ v_ = v
    /\ lt_ = InitLookup(psi, v)
    /\ accept_ = ZeroCounters
    /\ moves_ = ZeroCounters
    /\ mg_pc = "idle"
    /\ sweep_i = 0
    /\ last = [op |-> "Init", proposed |-> FALSE, v |-> v,
               lt |-> InitLookup(psi, v), accept |-> ZeroCounters,
               moves |-> ZeroCounters]
    /\ nprocs = 1
    /\ input_values = <<>> /\ input_chains = <<>> /\ input_weights = <<>>
    /\ stat_pc = <<>>
    /\ local_stats = <<>> /\ global_mean = <<>> /\ sent_mean = <<>>
    /\ sent_var = <<>> /\ ncollectives = <<>> /\ stats = <<>>
    /\ cfg = <<>>
    /\ vmc_pc = <<>> /\ params = <<>> /\ channel = <<>> /\ sync = <<>>
    /\ step = <<>> /\ adv_i = <<>> /\ nsampled = <<>> /\ nupdates = <<>>
    /\ error = <<>> /\ quota = <<>> /\ sampler = <<>> /\ mc_data = <<>>
    /\ observable_stats = <<>> /\ obs_i = <<>> /\ writer = <<>>
    /\ log = <<>>
    /\ ExUnused
    /\ SwUnused
    /\ VeUnused

\* Reset without psi_.InitLookup
MgResetKeepsLookup(initrandom) ==
  /\ mg_pc = "idle"
  /\ \E v \in Configurations(nv_, NUp(v_)) :
       /\ initrandom \/ v = v_
       /\ v_' = v
  /\ lt_' = lt_
  /\ last' = [op |-> "Reset", proposed |-> FALSE, initrandom |-> initrandom,
              v |-> v_, lt |-> lt_, moves |-> moves_]
  /\ accept_' = ZeroCounters
  /\ moves_' = ZeroCounters
  /\ UNCHANGED <<psi_, nv_, L_, clusters_, mg_pc, sweep_i, statVars,
                 vmcVars, exVars, swVars, veVars>>

\* MetropolisGlobal::Reset(initrandom)
MgReset(initrandom) ==
  /\ mg_pc = "idle"
  /\ \E v \in Configurations(nv_, NUp(v_)) :
       /\ initrandom \/ v = v_
       /\ v_' = v
       /\ lt_' = InitLookup(psi_, v)
  /\ last' = [op |-> "Reset", proposed |-> FALSE, initrandom |-> initrandom,
              v |-> v_, lt |-> lt_, moves |-> moves_]
  /\ accept_' = ZeroCounters
  /\ moves_' = ZeroCounters
  /\ UNCHANGED <<psi_, nv_, L_, clusters_, mg_pc, sweep_i, statVars,
                 vmcVars, exVars, swVars, veVars>>

\* MetropolisGlobal::SetVisible(v)
SetVisible(v) ==
  /\ mg_pc = "idle"
  /\ v_' = v
  /\ last' = [op |-> "SetVisible", proposed |-> FALSE, lt |-> lt_]
  /\ UNCHANGED <<psi_, nv_, L_, clusters_, lt_, accept_, moves_, mg_pc,
                 sweep_i, statVars, vmcVars, exVars, swVars, veVars>>

\* an iteration of the loop of Sweep can run: Sweep is called or is under
\* way, and fewer than MaxMoves iterations have run since the last reset
IterationEnabled ==
  /\ mg_pc \in {"idle", "sweep"}
  /\ moves_[0] + moves_[1] < MaxMoves

\* ++i of the loop of Sweep, and the return after the last site
NextIteration ==
  /\ sweep_i' = IF sweep_i + 1 < nv_ THEN sweep_i + 1 ELSE 0
  /\ mg_pc' = IF sweep_i + 1 < nv_ THEN "sweep" ELSE "idle"

\* the acceptance test with the equality accepted too
MetropolisTestWithTies(ratio, u) == ~DLess(ratio, u) /\ ~IsNaN(ratio)

\* if (ratio > distu(rgen_))
MetropolisTest(ratio, u) == DLess(u, ratio)

\* the Metropolis step that the three kinds of move share: the ratio from
\* the lookup table, the test against u, and on acceptance the counter,
\* UpdateLookup with the old configuration and then UpdateConf; k is the
\* move type, counted in moves_ whether or not there is a proposal
Propose(move, k, tochange, newconf, u) ==
  \E ratio \in {StdNorm(StdExp(LogValDiff(psi_, v_, tochange, newconf,
                                          lt_)))} :
  \E applied \in {MetropolisTest(ratio, u)} :
      /\ last' = [op |-> "Sweep", proposed |-> TRUE, k |-> k,
                  move |-> move, tochange |-> tochange,
                  newconf |-> newconf, ratio |-> ratio, u |-> u,
                  applied |-> applied, v |-> v_, lt |-> lt_,
                  accept |-> accept_, moves |-> moves_]
      /\ accept_' = [j \in 0..1 |-> IF j = k /\ applied THEN accept_[j] + 1
                                    ELSE accept_[j]]
      /\ lt_' = IF applied
                THEN UpdateLookup(psi_, v_, tochange, newconf, lt_) ELSE lt_
      /\ v_' = IF applied THEN UpdateConf(v_, tochange, newconf) ELSE v_
      /\ moves_' = [j \in 0..1 |-> IF j = k THEN moves_[j] + 1
                                   ELSE moves_[j]]

\* an iteration that proposes nothing
NoMove(k) ==
  /\ last' = NoProposal("Sweep")
  /\ moves_' = [j \in 0..1 |-> IF j = k THEN moves_[j] + 1 ELSE moves_[j]]
  /\ UNCHANGED <<v_, lt_, accept_>>

\* undefined behaviour: nothing can be said about what follows
Undefined ==
  /\ mg_pc' = "undefined"
  /\ last' = NoProposal("Undefined")
  /\ UNCHANGED <<v_, lt_, accept_, moves_, sweep_i>>

\* Sweep, an iteration with distu > 0.2: the exchange of the two sites of a
\* cluster drawn by distcl, proposed when their values differ
PairExchange ==
  /\ IterationEnabled
  /\ \E ut \in UValues : DLess(OneFifth, ut)
  /\ IF clusters_ = <<>>
     THEN Undefined
     ELSE /\ \E rcl \in 1..Len(clusters_), u \in UValues :
               LET si == clusters_[rcl][1]
                   sj == clusters_[rcl][2]
               IN  IF Abs(v_[si] - v_[sj]) > 0
                   THEN Propose("pair", 0, clusters_[rcl],
                                <<v_[sj], v_[si]>>, u)
                   ELSE NoMove(0)
          /\ NextIteration
  /\ UNCHANGED <<psi_, nv_, L_, clusters_, statVars, vmcVars, exVars, swVars, veVars>>

\* v_reshape.col(r)(j) of the column-major L_ x L_ map of v_
ColSite(r, j) == r * L_ + j

\* v_reshape.row(r)(j)
RowSite(r, j) == j * L_ + r

\* the site of line r at position j, for the columns or for the rows
LineSite(move, r, j) == IF move = "col" THEN ColSite(r, j) ELSE RowSite(r, j)

\* what a read through v_reshape can yield at a position that lies past
\* the end of v_
GarbageValues == {0, 2}

\* what the ratio can be when LogValDiff reads rows past the end of W_ and a_
GarbageRatios == {Zero, One}

\* by how much the rows past the end of W_ can move an entry of the lookup
\* table
GarbageShifts == {0, 1}

\* Eigen::Map<MatrixXd> v_reshape(v_.data(), L_, L_): the L_ * L_ doubles
\* that start at v_.data(); g is what lies past the end of v_
Reshape(g) ==
  IF L_ * L_ <= nv_ THEN v_
  ELSE [s \in 0..(L_ * L_ - 1) |-> IF s < nv_ THEN v_[s] ELSE g]

RECURSIVE LineChanges(_, _, _, _)
\* the loop over j of a block move: the pair of sites at position j of line
\* r and of the next line enters the proposal when the value on line r
\* exceeds the value on the next line.  The result is <<tochange, newconf>>
LineChanges(v_reshape, move, r, j) ==
  IF j >= L_ THEN << <<>>, <<>> >>
  ELSE LET here == LineSite(move, r, j)
           there == LineSite(move, (r + 1) % L_, j)
           rest == LineChanges(v_reshape, move, r, j + 1)
       IN  IF v_reshape[here] - v_reshape[there] > 0
           THEN << <<here, there>> \o rest[1],
                   <<v_reshape[there], v_reshape[here]>> \o rest[2] >>
           ELSE rest

RECURSIVE InRange(_, _)
\* the entries of a proposal whose site lies inside v_
InRange(tochange, newconf) ==
  IF tochange = <<>> THEN << <<>>, <<>> >>
  ELSE LET rest == InRange(Tail(tochange), Tail(newconf))
       IN  IF tochange[1] < nv_
           THEN << <<tochange[1]>> \o rest[1], <<newconf[1]>> \o rest[2] >>
           ELSE rest

\* the Metropolis step on a proposal that names a site past the end of v_,
\* when the process survives the reads: LogValDiff and UpdateLookup read rows
\* past the end of W_ and a_, so the ratio and the shift of the lookup table
\* are whatever lies there; an accepted proposal makes UpdateConf write past
\* the end of v_, after which nothing more can be said about the chain
Overrun(k, tochange, newconf, u) ==
  \E ratio \in GarbageRatios :
  \E applied \in {MetropolisTest(ratio, u)} :
  \E d \in (IF applied THEN GarbageShifts ELSE {0}) :
  \E in \in {InRange(tochange, newconf)} :
      /\ last' = [op |-> "Overrun", proposed |-> FALSE, v |-> v_,
                  lt |-> lt_, accept |-> accept_, moves |-> moves_,
                  tochange |-> tochange]
      /\ accept_' = [j \in 0..1 |-> IF j = k /\ applied THEN accept_[j] + 1
                                    ELSE accept_[j]]
      /\ lt_' = IF applied
                THEN [h \in 1..Len(lt_) |->
                        UpdateLookup(psi_, v_, in[1], in[2], lt_)[h] + d]
                ELSE lt_
      /\ v_' = IF applied THEN UpdateConf(v_, in[1], in[2]) ELSE v_
      /\ moves_' = [j \in 0..1 |-> IF j = k THEN moves_[j] + 1
                                   ELSE moves_[j]]
      /\ IF applied THEN mg_pc' = "overrun" /\ UNCHANGED sweep_i
         ELSE NextIteration

\* the block move on a line r drawn by distline; when L_ * L_ exceeds nv_
\* the map reaches past the end of v_, and the process either stops there
\* or goes on with what it reads
BlockSwap(move) ==
  \/ L_ * L_ > nv_ /\ Undefined
  \/ \E g \in (IF L_ * L_ > nv_ THEN GarbageValues ELSE {0}) :
     \E r \in 0..(L_ - 1), u \in UValues :
     \E ch \in {LineChanges(Reshape(g), move, r, 0)} :
         IF ch[1] = <<>> THEN NoMove(1) /\ NextIteration
         ELSE IF \A s \in 1..Len(ch[1]) : ch[1][s] < nv_
              THEN Propose(move, 1, ch[1], ch[2], u) /\ NextIteration
              ELSE Overrun(1, ch[1], ch[2], u)

\* Sweep, an iteration with distu <= 0.2 and then distu > 0.5
ColumnSwap ==
  /\ IterationEnabled
  /\ \E ut \in UValues : ~DLess(OneFifth, ut)
  /\ \E ud \in UValues : DLess(OneHalf, ud)
  /\ BlockSwap("col")
  /\ UNCHANGED <<psi_, nv_, L_, clusters_, statVars, vmcVars, exVars, swVars, veVars>>

\* Sweep, an iteration with distu <= 0.2 and then distu <= 0.5
RowSwap ==
  /\ IterationEnabled
  /\ \E ut \in UValues : ~DLess(OneFifth, ut)
  /\ \E ud \in UValues : ~DLess(OneHalf, ud)
  /\ BlockSwap("row")
  /\ UNCHANGED <<psi_, nv_, L_, clusters_, statVars, vmcVars, exVars, swVars, veVars>>

\* MetropolisGlobal::Acceptance(): acc(i) = accept_(i) / moves_(i)
Acceptance == [k \in 0..1 |-> DDiv(D(accept_[k]), D(moves_[k]))]

MgNext ==
  \/ \E initrandom \in BOOLEAN : MgReset(initrandom)
  \/ \E v \in Configurations(nv_, NUp(v_)) : SetVisible(v)
  \/ PairExchange
  \/ ColumnSwap
  \/ RowSwap

SpecSweep == MgInit /\ [][MgNext]_vars

\* ------------------------------------------------------------------------
\* The Sampler wrapper: its four constructors and the calls it delegates
\* ------------------------------------------------------------------------
MaxCalls == 2

\* pars["Sampler"] has no field Name
NoName == ""

\* std::set<std::string> samplers of CheckInput
SamplerNames ==
  {"MetropolisLocal", "MetropolisLocalPt", "MetropolisExchange",
   "MetropolisExchangePt", "MetropolisHamiltonian",
   "MetropolisHamiltonianPt", "MetropolisHop", "Exact", "MetropolisGlobal",
   "ExactSz"}

\* the four constructors by what they are given besides psi and pars
Constructors == {"psi", "graph", "hamiltonian", "graph_hamiltonian"}

\* pars: whether it has the field Sampler, the Name (NoName when absent; a
\* name CheckInput does not know stands for all of them) and whether the
\* fields ActingOn, MoveOperators and Nreplicas exist
SamplerPars ==
  [sampler : BOOLEAN, Name : SamplerNames \cup {"Other", NoName},
   ActingOn : BOOLEAN, MoveOperators : BOOLEAN, Nreplicas : BOOLEAN]

\* Sampler::CheckInput throws InvalidInputError
CheckInputRaises(pars) ==
  \/ ~pars.sampler
  \/ pars.Name # NoName /\ pars.Name \notin SamplerNames
  \/ pars.Name = NoName /\ ~pars.ActingOn /\ ~pars.MoveOperators

\* Init(psi, pars): s_ after the call
InitPsi(pars, s) ==
  IF pars.Name # NoName
  THEN IF pars.Name \in {"MetropolisLocal", "MetropolisLocalPt", "Exact",
                         "ExactSz"}
       THEN pars.Name ELSE s
  ELSE IF pars.Nreplicas THEN "CustomSamplerPt" ELSE "CustomSampler"

\* Init(graph, psi, pars): s_ after the call
InitGraph(pars, s) ==
  IF pars.Name \in {"MetropolisExchange", "MetropolisExchangePt",
                    "MetropolisHop", "MetropolisGlobal"}
  THEN pars.Name ELSE s

\* Init(hamiltonian, psi, pars): s_ after the call
InitHamiltonian(pars, s) ==
  IF pars.Name \in {"MetropolisHamiltonian", "MetropolisHamiltonianPt"}
  THEN pars.Name ELSE s

\* the body of a constructor after CheckInput: the Init calls in its order
InitSteps(ctor) ==
  IF ctor = "psi" THEN <<"init_psi">>
  ELSE IF ctor = "graph" THEN <<"init_psi", "init_graph">>
  ELSE IF ctor = "hamiltonian" THEN <<"init_psi", "init_hamiltonian">>
  ELSE <<"init_psi", "init_graph", "init_hamiltonian">>

\* the step that follows step pc in the constructor ctor
StepAfter(ctor, pc) ==
  LET steps == InitSteps(ctor)
      i == CHOOSE k \in 1..Len(steps) : steps[k] = pc
  IN  IF i < Len(steps) THEN steps[i + 1] ELSE "ready"

SwInit ==
  \E ctor \in Constructors, pars \in SamplerPars :
    /\ sw_ctor = ctor
    /\ sw_pars = pars
    /\ s_ = "null"
    /\ sw_pc = "check"
    /\ sw_calls = <<>>
    /\ nprocs = 1
    /\ input_values = <<>> /\ input_chains = <<>> /\ input_weights = <<>>
    /\ stat_pc = <<>>
    /\ local_stats = <<>> /\ global_mean = <<>> /\ sent_mean = <<>>
    /\ sent_var = <<>> /\ ncollectives = <<>> /\ stats = <<>>
    /\ cfg = <<>>
    /\ vmc_pc = <<>> /\ params = <<>> /\ channel = <<>> /\ sync = <<>>
    /\ step = <<>> /\ adv_i = <<>> /\ nsampled = <<>> /\ nupdates = <<>>
    /\ error = <<>> /\ quota = <<>> /\ sampler = <<>> /\ mc_data = <<>>
    /\ observable_stats = <<>> /\ obs_i = <<>> /\ writer = <<>>
    /\ log = <<>>
    /\ ExUnused
    /\ MgUnused
    /\ VeUnused

\* CheckInput(pars), the first statement of every constructor
CheckInput ==
  /\ sw_pc = "check"
  /\ sw_pc' = IF CheckInputRaises(sw_pars) THEN "raised" ELSE "init_psi"
  /\ UNCHANGED <<sw_ctor, sw_pars, s_, sw_calls, statVars, vmcVars, exVars,
                 mgVars, veVars>>

\* the call of Init(psi, pars), made by every constructor
SwInitPsi ==
  /\ sw_pc = "init_psi"
  /\ s_' = InitPsi(sw_pars, s_)
  /\ sw_pc' = StepAfter(sw_ctor, "init_psi")
  /\ UNCHANGED <<sw_ctor, sw_pars, sw_calls, statVars, vmcVars, exVars,
                 mgVars, veVars>>

\* the call of Init(graph, psi, pars)
SwInitGraph ==
  /\ sw_pc = "init_graph"
  /\ s_' = InitGraph(sw_pars, s_)
  /\ sw_pc' = StepAfter(sw_ctor, "init_graph")
  /\ UNCHANGED <<sw_ctor, sw_pars, sw_calls, statVars, vmcVars, exVars,
                 mgVars, veVars>>

\* the call of Init(hamiltonian, psi, pars)
SwInitHamiltonian ==
  /\ sw_pc = "init_hamiltonian"
  /\ s_' = InitHamiltonian(sw_pars, s_)
  /\ sw_pc' = StepAfter(sw_ctor, "init_hamiltonian")
  /\ UNCHANGED <<sw_ctor, sw_pars, sw_calls, statVars, vmcVars, exVars,
                 mgVars, veVars>>

\* Reset, Sweep, Visible, Acceptance: return s_->op(...); through a null
\* unique_ptr the call is undefined
Delegate(op) ==
  /\ sw_pc = "ready"
  /\ Len(sw_calls) < MaxCalls
  /\ IF s_ = "null"
     THEN sw_pc' = "undefined" /\ sw_calls' = Append(sw_calls, <<op, "null">>)
     ELSE sw_pc' = "ready" /\ sw_calls' = Append(sw_calls, <<op, s_>>)
  /\ UNCHANGED <<sw_ctor, sw_pars, s_, statVars, vmcVars, exVars, mgVars,
                 veVars>>

SwNext ==
  \/ CheckInput
  \/ SwInitPsi
  \/ SwInitGraph
  \/ SwInitHamiltonian
  \/ \E op \in {"Reset", "Sweep", "Visible", "Acceptance"} : Delegate(op)

SpecSampler == SwInit /\ [][SwNext]_vars

\* ------------------------------------------------------------------------
\* VariationalExact: the constructor's dim_ and the rows of GetConfig
\* ------------------------------------------------------------------------
MaxVisible == 18

\* GetConfig is followed for machines of up to this many visible units
MaxEnumerate == 8

\* an int is kept as two 16-bit halves while it is multiplied
Word == Pow2(16)

\* INT_MAX of a 32-bit int
IntMax == (Pow2(30) - 1) * 2 + 1

\* the two's complement halves of an int
Limbs(x) == <<(x \div Word) % Word, x % Word>>

\* the int whose two's complement halves are l
FromLimbs(l) ==
  IF l[1] >= Word \div 2 THEN (l[1] - Word) * Word + l[2]
  ELSE l[1] * Word + l[2]

\* x * b of two ints, b small and positive, as a build that wraps gives it
IntMul(x, b) ==
  LET l == Limbs(x)
      lo == l[2] * b
      hi == l[1] * b + lo \div Word
  IN  FromLimbs(<<hi % Word, lo % Word>>)

\* x * b does not fit an int: signed overflow
MulOverflows(x, b) ==
  LET q == IntMax \div b
      negq == IF IntMax % b = b - 1 THEN q + 1 ELSE q
  IN  x > q \/ x < -negq

\* x / d of two ints, d positive: the quotient truncated toward zero
IntDiv(x, d) == IF x >= 0 THEN x \div d ELSE -((-x) \div d)

RECURSIVE DimProduct(_, _, _)
\* for (i < nv_ / 2) dim_ *= (nv_ - i): the value, and whether a product
\* overflowed
DimProduct(nv, i, acc) ==
  IF i >= nv \div 2 THEN acc
  ELSE DimProduct(nv, i + 1,
                  [value |-> IntMul(acc.value, nv - i),
                   overflow |-> acc.overflow
                                  \/ MulOverflows(acc.value, nv - i)])

RECURSIVE DimQuotient(_, _, _)
\* for (i < nv_ / 2) dim_ /= (i + 1)
DimQuotient(nv, i, value) ==
  IF i >= nv \div 2 THEN value
  ELSE DimQuotient(nv, i + 1, IntDiv(value, i + 1))

\* dim_ as the constructor computes it
Dim(nv) ==
  LET p == DimProduct(nv, 0, [value |-> 1, overflow |-> FALSE])
  IN  [value |-> DimQuotient(nv, 0, p.value), overflow |-> p.overflow]

\* the largest element of a non-empty set of integers
SetMax(S) == CHOOSE x \in S : \A y \in S : y <= x

\* std::next_permutation(myints.begin(), myints.end()): the next arrangement
\* in lexicographic order and true, or the first arrangement and false
NextPermutation(a) ==
  LET n == Len(a)
      asc == {i \in 1..(n - 1) : a[i] < a[i + 1]}
  IN  IF asc = {} THEN [seq |-> [k \in 1..n |-> a[n + 1 - k]], more |-> FALSE]
      ELSE LET i == SetMax(asc)
               j == SetMax({k \in (i + 1)..n : a[i] < a[k]})
               swapped == [k \in 1..n |-> IF k = i THEN a[j]
                                          ELSE IF k = j THEN a[i] ELSE a[k]]
           IN  [seq |-> [k \in 1..n |-> IF k <= i THEN swapped[k]
                                        ELSE swapped[n + i + 1 - k]],
                more |-> TRUE]

\* myints after the push_back loop and std::sort
SortedInts(nv) ==
  [j \in 1..(2 * (nv \div 2)) |-> IF j <= nv \div 2 THEN -1 ELSE 1]

VeInit ==
  \E nv \in 0..MaxVisible :
    /\ ve_nv = nv
    /\ dim_ = 0
    /\ ve_pc = "new"
    /\ myints = <<>>
    /\ vsamp_ = <<>>
    /\ ve_count = 0
    /\ ve_ub = {}
    /\ nprocs = 1
    /\ input_values = <<>> /\ input_chains = <<>> /\ input_weights = <<>>
    /\ stat_pc = <<>>
    /\ local_stats = <<>> /\ global_mean = <<>> /\ sent_mean = <<>>
    /\ sent_var = <<>> /\ ncollectives = <<>> /\ stats = <<>>
    /\ cfg = <<>>
    /\ vmc_pc = <<>> /\ params = <<>> /\ channel = <<>> /\ sync = <<>>
    /\ step = <<>> /\ adv_i = <<>> /\ nsampled = <<>> /\ nupdates = <<>>
    /\ error = <<>> /\ quota = <<>> /\ sampler = <<>> /\ mc_data = <<>>
    /\ observable_stats = <<>> /\ obs_i = <<>> /\ writer = <<>>
    /\ log = <<>>
    /\ ExUnused
    /\ MgUnused
    /\ SwUnused

\* the constructor computes dim_; a product that overflows is undefined: the
\* build wraps it or stops
VeConstruct ==
  /\ ve_pc = "new"
  /\ \E d \in {Dim(ve_nv)} :
       IF d.overflow
       THEN /\ ve_ub' = ve_ub \cup {<<"overflow", 0>>}
            /\ \/ dim_' = d.value /\ ve_pc' = "constructed"
               \/ dim_' = dim_ /\ ve_pc' = "undefined"
       ELSE /\ dim_' = d.value
            /\ ve_pc' = "constructed"
            /\ UNCHANGED ve_ub
  /\ UNCHANGED <<ve_nv, myints, vsamp_, ve_count, statVars, vmcVars, exVars,
                 mgVars, swVars>>

\* GetConfig up to its do loop: myints is filled and sorted
GetConfigStart ==
  /\ ve_pc = "constructed"
  /\ ve_nv <= MaxEnumerate
  /\ myints' = SortedInts(ve_nv)
  /\ vsamp_' = <<>>
  /\ ve_count' = 0
  /\ ve_pc' = "fill"
  /\ UNCHANGED <<ve_nv, dim_, ve_ub, statVars, vmcVars, exVars, mgVars,
                 swVars>>

\* one pass of the do loop: v(j) = myints[j] for j < nv_, the row is stored,
\* count++ and std::next_permutation.  A read of myints[j] past the end of
\* the list is undefined: the process stops, or reads what lies there
GetConfigRow ==
  /\ ve_pc = "fill"
  /\ IF ve_nv > Len(myints)
     THEN \E g \in (IF \E u \in ve_ub : u[1] = "myints"
                    THEN {u[2] : u \in {w \in ve_ub : w[1] = "myints"}}
                    ELSE GarbageValues) :
            /\ ve_ub' = ve_ub \cup {<<"myints", g>>}
            /\ \/ /\ vsamp_' = Append(vsamp_,
                       [j \in 1..ve_nv |-> IF j <= Len(myints) THEN myints[j]
                                           ELSE g])
                  /\ ve_count' = ve_count + 1
                  /\ \E next \in {NextPermutation(myints)} :
                       /\ myints' = next.seq
                       /\ ve_pc' = IF next.more THEN "fill" ELSE "done"
               \/ /\ ve_pc' = "undefined"
                  /\ UNCHANGED <<vsamp_, ve_count, myints>>
     ELSE /\ vsamp_' = Append(vsamp_, myints)
          /\ ve_count' = ve_count + 1
          /\ \E next \in {NextPermutation(myints)} :
               /\ myints' = next.seq
               /\ ve_pc' = IF next.more THEN "fill" ELSE "done"
          /\ UNCHANGED ve_ub
  /\ UNCHANGED <<ve_nv, dim_, statVars, vmcVars, exVars, mgVars, swVars>>

VeNext == VeConstruct \/ GetConfigStart \/ GetConfigRow

SpecDim == VeInit /\ [][VeNext]_vars

\* ------------------------------------------------------------------------
\* Properties of the driver
\* ------------------------------------------------------------------------

\* C1: no rank starts sampling for step i+1 before every rank has installed
\* the parameter vector of step i, and whenever a rank starts sampling, all
\* ranks hold the same parameter vector.
C1_StepOrder ==
  \A p, q \in Ranks :
    /\ nsampled[p] <= nupdates[q] + 1
    /\ vmc_pc[p] = "advance" =>
         (nupdates[q] = nsampled[p] /\ params[q] = params[p])

\* C1 witness: two ranks, one is about to sample its second step with a
\* parameter vector that the first update has changed
C1_Witness ==
  /\ nprocs = 2
  /\ \E p \in Ranks :
       /\ vmc_pc[p] = "advance" /\ nsampled[p] = 1
       /\ params[p] # 0 /\ params[1 - p] = params[p]

\* the configuration is one of the invalid ones: unknown solver name, a
\* target that is neither "energy" nor "variance", or use_cholesky together
\* with a solver other than LLT
InvalidConfiguration ==
  \/ ~SolverFromStringHasValue(cfg.sr_lsq_solver)
  \/ cfg.target \notin {"energy", "variance"}
  \/ cfg.use_cholesky = "true" /\ cfg.sr_lsq_solver # "LLT"

\* C3 (as claimed): with an invalid configuration Init raises
\* InvalidInputError before any sampling; Advance is never reached.
C3_InvalidRejectedAtSetup ==
  \A p \in Ranks :
    InvalidConfiguration =>
      /\ nsampled[p] = 0
      /\ vmc_pc[p] \in {"construct", "raised"}
      /\ vmc_pc[p] = "raised" => error[p] = "InvalidInputError"

\* ------------------------------------------------------------------------
\* Reference quantities used by the properties (two-pass definitions)
\* ------------------------------------------------------------------------
\* the arguments of rank p pass every check of Statistics
ShapeOk(p) ==
  /\ input_chains[p] > 0
  /\ Len(input_values[p]) % input_chains[p] = 0
  /\ Len(input_values[p]) >= input_chains[p]

\* number of samples per chain of rank p
NOf(p) == Len(input_values[p]) \div input_chains[p]

\* the samples of chain c (from 0) of rank p: flat indices k*M + c
ChainSamples(p, c) ==
  [k \in 1..NOf(p) |-> C(input_values[p][(k - 1) * input_chains[p] + c + 1])]

\* mean(x) of a non-empty sequence of complex samples
TwoPassMean(xs) == CDivD(SumC(xs), D(Len(xs)))

\* mean(x^2) - mean(x)^2 of a sequence of doubles
TwoPassVarD(ds) ==
  DSub(DDiv(SumD([k \in 1..Len(ds) |-> DMul(ds[k], ds[k])]), D(Len(ds))),
       DMul(DDiv(SumD(ds), D(Len(ds))), DDiv(SumD(ds), D(Len(ds)))))

\* the two-pass variance of complex samples: real and imaginary parts
\* separately, then added
TwoPassVar(xs) ==
  DAdd(TwoPassVarD([k \in 1..Len(xs) |-> xs[k][1]]),
       TwoPassVarD([k \in 1..Len(xs) |-> xs[k][2]]))

\* all <<rank, chain>> pairs of the call
AllChains == { pc \in Ranks \X (0..(MaxChains + 1)) : pc[2] < input_chains[pc[1]] }

RECURSIVE SumOverC(_, _)
\* sum of f[x] (complex) over the finite set S
SumOverC(f, S) ==
  IF S = {} THEN CZero
  ELSE LET x == CHOOSE y \in S : TRUE IN CAdd(f[x], SumOverC(f, S \ {x}))

RECURSIVE SumOverD(_, _)
\* sum of f[x] (double) over the finite set S
SumOverD(f, S) ==
  IF S = {} THEN Zero
  ELSE LET x == CHOOSE y \in S : TRUE IN DAdd(f[x], SumOverD(f, S \ {x}))

\* every rank passes the checks with the same chain count and chain length
Homogeneous ==
  /\ \A p \in Ranks : ShapeOk(p)
  /\ \A p, q \in Ranks : input_chains[p] = input_chains[q] /\ NOf(p) = NOf(q)

\* the global mean: all per-chain two-pass means, divided by the number m of
\* chains
RefMean ==
  CDivD(SumOverC([pc \in AllChains |-> TwoPassMean(ChainSamples(pc[1], pc[2]))],
                 AllChains),
        D(Cardinality(AllChains)))

\* B: mean over all chains of |chain mean - global mean|^2
RefB ==
  DDiv(SumOverD([pc \in AllChains |->
                   CAbs2(CSub(TwoPassMean(ChainSamples(pc[1], pc[2])), RefMean))],
                AllChains),
       D(Cardinality(AllChains)))

\* W: mean over all chains of the within-chain variance
RefW ==
  DDiv(SumOverD([pc \in AllChains |-> TwoPassVar(ChainSamples(pc[1], pc[2]))],
                AllChains),
       D(Cardinality(AllChains)))

DMax(a, b) == IF DLess(a, b) THEN b ELSE a

\* ------------------------------------------------------------------------
\* Properties of Statistics
\* ------------------------------------------------------------------------

\* C2 (as claimed): a process that holds zero chains still takes part in the
\* collectives of Statistics: once it is past the checks it has entered the
\* first MPI_Allreduce, so that no other process waits for it forever.
C2_ZeroChainsTakesPart ==
  \A p \in Ranks :
    (input_chains[p] = 0 /\ stat_pc[p] # "call") =>
      (stat_pc[p] # "raised" /\ ncollectives[p] >= 1)

\* C4: Statistics ends with InvalidInputError, having entered no collective,
\* exactly when number_of_chains is not positive, the size is not a multiple
\* of it, or the size is smaller than it; for every other input the call goes
\* on to its collectives and, when every rank's input passes, no rank stops
\* before it has returned a Stats value.
C4_RaisesExactlyOnBadShape ==
  /\ \A p \in Ranks :
       /\ stat_pc[p] = "raised" =>
            (/\ \/ input_chains[p] <= 0
                \/ Len(input_values[p]) % input_chains[p] # 0
                \/ Len(input_values[p]) < input_chains[p]
             /\ ncollectives[p] = 0
             /\ stats[p] = NoStats)
       /\ stat_pc[p] \notin {"call", "raised"} =>
            (/\ input_chains[p] > 0
             /\ Len(input_values[p]) % input_chains[p] = 0
             /\ Len(input_values[p]) >= input_chains[p])
  /\ (\A p \in Ranks : ShapeOk(p)) =>
       \/ \A p \in Ranks : stat_pc[p] = "returned"
       \/ \E p \in Ranks : \/ stat_pc[p] = "call"
                            \/ FirstAllreduceComplete(p)
                            \/ SecondAllreduceComplete(p)

\* C4 witness: a rank has raised on three samples for two chains
C4_Witness ==
  \E p \in Ranks :
    /\ stat_pc[p] = "raised"
    /\ input_chains[p] = 2 /\ Len(input_values[p]) = 3

\* C5 (as claimed): fewer samples than chains is not an error, Statistics
\* does not raise.
C5_FewSamplesNoError ==
  \A p \in Ranks :
    (Len(input_values[p]) < input_chains[p] /\ stat_pc[p] # "call") =>
      stat_pc[p] # "raised"

\* C5 (amended): fewer samples than chains is an error: Statistics raises
\* InvalidInputError before any collective and returns no Stats value.
C5_FewSamplesRaise ==
  \A p \in Ranks :
    (Len(input_values[p]) < input_chains[p] /\ stat_pc[p] # "call") =>
      (stat_pc[p] = "raised" /\ ncollectives[p] = 0 /\ stats[p] = NoStats)

\* C5 witness: a rank given one chain and no sample has raised
C5_Witness ==
  \E p \in Ranks :
    /\ input_chains[p] = 1 /\ Len(input_values[p]) = 0
    /\ stat_pc[p] = "raised"

AllEqual(c) ==
  \A p \in Ranks : \A k \in 1..Len(input_values[p]) : input_values[p][k] = c

\* C7 (as claimed): for m > 1 chains of n samples all equal to c, Statistics
\* returns mean = c, error_of_mean = 0, variance = 0, R = sqrt((n-1)/n).
C7_ConstantChains ==
  \A p \in Ranks : \A c \in SampleValues :
    (/\ stat_pc[p] = "returned"
     /\ Homogeneous
     /\ TotalChains(nprocs, input_chains[p]) > 1
     /\ AllEqual(c)) =>
       /\ stats[p].mean = C(c)
       /\ stats[p].error_of_mean = Surd(Zero)
       /\ stats[p].variance = Zero
       /\ stats[p].R = DSqrt(DDiv(D(NOf(p) - 1), D(NOf(p))))

\* C8: for m > 1 chains of n samples each with W > 0, Statistics returns
\* error_of_mean = sqrt(B/m), variance = W,
\* correlation = max(0, round(0.5*(n*B/W - 1))), a non-negative whole
\* number, and R = sqrt((n-1)/n + B/W).
C8_Diagnostics ==
  \A p \in Ranks :
    (/\ stat_pc[p] = "returned"
     /\ Homogeneous
     /\ TotalChains(nprocs, input_chains[p]) > 1
     /\ DLess(Zero, RefW)) =>
       /\ stats[p].error_of_mean
            = DSqrt(DDiv(RefB, D(Cardinality(AllChains))))
       /\ stats[p].variance = RefW
       /\ stats[p].correlation
            = DMax(Zero, DRound(DMul(<<1, 2>>,
                DSub(DDiv(DMul(D(NOf(p)), RefB), RefW), One))))
       /\ stats[p].correlation[2] = 1 /\ stats[p].correlation[1] >= 0
       /\ stats[p].R
            = DSqrt(DAdd(DDiv(D(NOf(p) - 1), D(NOf(p))), DDiv(RefB, RefW)))

\* C8 witness: two or more chains, W > 0 and a positive autocorrelation time
C8_Witness ==
  \E p \in Ranks :
    /\ stat_pc[p] = "returned"
    /\ Homogeneous
    /\ TotalChains(nprocs, input_chains[p]) > 1
    /\ DLess(Zero, RefW)
    /\ DLess(Zero, stats[p].correlation)

\* C9: the flat input is read as interleaved chains: the mean of chain c is
\* the average of the samples at flat indices k*M + c, and the returned mean
\* is the sum of all per-chain means of all ranks divided by m.
C9_InterleavedChains ==
  \A p \in Ranks :
    /\ stat_pc[p] \notin {"call", "raised"} =>
         \A c \in 0..(input_chains[p] - 1) :
           local_stats[p].mean[c + 1] = TwoPassMean(ChainSamples(p, c))
    /\ stat_pc[p] = "returned" =>
         stats[p].mean
           = CDivD(SumOverC([pc \in AllChains |->
                               TwoPassMean(ChainSamples(pc[1], pc[2]))],
                            AllChains),
                   D(TotalChains(nprocs, input_chains[p])))

\* C9 witness: two interleaved chains of two samples with different means
C9_Witness ==
  \E p \in Ranks :
    /\ stat_pc[p] = "returned"
    /\ input_chains[p] = 2 /\ Len(input_values[p]) = 4
    /\ local_stats[p].mean[1] # local_stats[p].mean[2]
    /\ input_values[p][1] # input_values[p][3]

\* C10: for every chain of n >= 2 samples the mean and variance of the
\* one-pass accumulator equal the two-pass mean(x) and mean(x^2) - mean(x)^2
\* (divisor n, real and imaginary parts separately, then added).
C10_WelfordIsTwoPass ==
  \A p \in Ranks :
    (stat_pc[p] \notin {"call", "raised"} /\ NOf(p) >= 2) =>
      \A c \in 0..(input_chains[p] - 1) :
        /\ local_stats[p].mean[c + 1] = TwoPassMean(ChainSamples(p, c))
        /\ local_stats[p].var[c + 1] = TwoPassVar(ChainSamples(p, c))

\* C10 witness: a chain of three samples with a non-zero variance
C10_Witness ==
  \E p \in Ranks :
    /\ stat_pc[p] \notin {"call", "raised"}
    /\ NOf(p) = 3
    /\ DLess(Zero, local_stats[p].var[1])

\* C11: in StatisticsLocal a chain that contributes zero samples has a
\* not-a-number mean (both parts) and a not-a-number variance, and a chain
\* that contributes exactly one sample has that sample as its mean and a
\* not-a-number variance.
C11_ZeroAndOneSample ==
  \A p \in Ranks :
    stat_pc[p] = "local_returned" =>
      \A c \in 1..input_chains[p] :
        /\ NOf(p) = 0 =>
             /\ local_stats[p].mean[c] = <<NaN, NaN>>
             /\ local_stats[p].var[c] = NaN
        /\ NOf(p) = 1 =>
             /\ local_stats[p].mean[c] = C(input_values[p][c])
             /\ local_stats[p].var[c] = NaN

\* C11 witness: one rank returned for chains without a sample, another for
\* a chain of exactly one sample, which is not zero
C11_Witness ==
  \E p, q \in Ranks :
    /\ stat_pc[p] = "local_returned" /\ stat_pc[q] = "local_returned"
    /\ input_chains[p] > 0 /\ NOf(p) = 0
    /\ input_chains[q] > 0 /\ NOf(q) = 1
    /\ local_stats[q].mean[1] # CZero

\* the pairs <<rank, index>> of all samples on all processes
AllSamples ==
  { pi \in Ranks \X (1..MaxWeighted + 1) : pi[2] <= Len(input_values[pi[1]]) }

\* sum over all samples on all processes of w_i * v_i
RefWeightedMean ==
  SumOverC([pi \in AllSamples |->
              CMulD(C(input_values[pi[1]][pi[2]]), input_weights[pi[1]][pi[2]])],
           AllSamples)

\* sum over all samples on all processes of w_i * |v_i|^2
RefWeightedSecondMoment ==
  SumOverD([pi \in AllSamples |->
              DMul(input_weights[pi[1]][pi[2]],
                   CAbs2(C(input_values[pi[1]][pi[2]])))],
           AllSamples)

\* C12 (as claimed): WeightedStatistics returns mean = sum of w_i * v_i over
\* all samples on all processes, variance = sum of w_i * |v_i|^2 minus
\* |mean|^2, and not-a-number for error_of_mean, correlation and R.
C12_WeightedStatistics ==
  \A p \in Ranks :
    stat_pc[p] = "weighted_returned" =>
      /\ stats[p].mean = RefWeightedMean
      /\ stats[p].variance =
           DSub(RefWeightedSecondMoment, CAbs2(RefWeightedMean))
      /\ IsNaNS(stats[p].error_of_mean)
      /\ IsNaN(stats[p].correlation)
      /\ IsNaNS(stats[p].R)

\* C13 (as claimed): with an iteration count N configured, a rank whose Run
\* has stopped has performed exactly N optimization steps; with no iteration
\* count Run never stops; and Run stops only between steps, never with a
\* step under way.
C13_RunStopsAfterNSteps ==
  \A p \in Ranks :
    /\ (cfg.n_iter # NullOpt /\ vmc_pc[p] = "done") =>
         (nsampled[p] = cfg.n_iter /\ nupdates[p] = cfg.n_iter)
    /\ cfg.n_iter = NullOpt => vmc_pc[p] # "done"
    /\ vmc_pc[p] = "done" => (adv_i[p] = 0 /\ nsampled[p] = nupdates[p])

\* C14 (as claimed): the Stats of the Hamiltonian and of every registered
\* auxiliary observable are computed before the parameter update of their
\* cycle is applied, with the wavefunction parameters that produced the
\* samples they are computed from.
C14_ObservablesBeforeUpdate ==
  \A p \in Ranks :
    \A k \in DOMAIN observable_stats[p] :
      /\ observable_stats[p][k].updates = observable_stats[p][k].gen - 1
      /\ observable_stats[p][k].pars = observable_stats[p][k].sample_pars

\* C15 (as claimed): once a rank has retained samples in a run, the
\* configured number of on-init sweeps (discarded_samples_on_init) has been
\* executed and discarded on it, and the samples of every step were retained
\* after ndiscard_ sweeps of that step were discarded.
C15_WarmUpBeforeFirstSample ==
  \A p \in Ranks :
    nsampled[p] >= 1 =>
      /\ sampler[p].init_sweeps = cfg.discarded_samples_on_init
      /\ mc_data[p].discarded = quota[p].ndiscard

\* C16 (as claimed, for the derivative self-check): a call of CheckDerLog
\* leaves the parameter vector of the machine equal to its value before the
\* call.
C16_CheckDerLogKeepsParameters ==
  [][\A p \in Ranks : CheckDerLog(p) => psi_pars'[p] = psi_pars[p]]_vars

\* C17: the output writer exists iff the rank is 0; only rank 0 ever writes
\* a record; rank 0 has written exactly one record for every pass of the
\* loop of Run it has reported, the k-th one for the k-th pass; and no rank
\* starts a pass before every rank has made its report of the pass before
\* and entered the barrier that follows it.
C17_LogByCoordinatorOnly ==
  \A p \in Ranks :
    /\ vmc_pc[p] \notin {"construct", "init_barrier", "raised"} =>
         (writer[p] <=> p = 0)
    /\ p # 0 => log[p] = <<>>
    /\ p = 0 =>
         /\ Len(log[p]) = (step[p] \div cfg.step_size)
                           + (IF vmc_pc[p] = "run_barrier" THEN 1 ELSE 0)
         /\ \A k \in 1..Len(log[p]) : log[p][k] = (k - 1) * cfg.step_size
    /\ \A q \in Ranks :
         step[p] > step[q] =>
           /\ vmc_pc[q] = "run_barrier"
           /\ step[p] = step[q] + cfg.step_size
           /\ Len(log[0]) >= step[p] \div cfg.step_size

\* C17 witness: two ranks, rank 0 has written the records of two passes and
\* rank 1, which wrote none, has made its report of the second pass
C17_Witness ==
  /\ nprocs = 2
  /\ Len(log[0]) = 2
  /\ log[1] = <<>>
  /\ step[1] = cfg.step_size
  /\ vmc_pc[1] = "run_barrier"

\* C18 (as claimed): for the same Ok_, local energies and diagonal shift the
\* direct path and the iterative path of UpdateParameters solve the same
\* regularized system, so that they agree on the update deltaP.
C18_DirectAndIterativeAgree ==
  (delta.direct.done /\ delta.iterative.done) =>
    /\ delta.direct.S = delta.iterative.S
    /\ delta.direct.deltaP = delta.iterative.deltaP

\* C19: once Init has run, the quota nsamples_node_ is the quotient
\* nsamples / totalnodes rounded up (nsamples <= totalnodes * nsamples_node_
\* < nsamples + totalnodes), it is the same on every process, and ndiscard_
\* is floor(0.1 * nsamples_node_) when discarded_samples is -1 and
\* discarded_samples otherwise.
C19_QuotaRoundsUp ==
  \A p \in Ranks :
    vmc_pc[p] # "construct" =>
      /\ cfg.nsamples <= nprocs * quota[p].nsamples_node
      /\ nprocs * quota[p].nsamples_node < cfg.nsamples + nprocs
      /\ \A q \in Ranks : vmc_pc[q] # "construct" => quota[q] = quota[p]
      /\ cfg.discarded_samples = -1 =>
           /\ 10 * quota[p].ndiscard <= quota[p].nsamples_node
           /\ quota[p].nsamples_node < 10 * quota[p].ndiscard + 10
      /\ cfg.discarded_samples # -1 =>
           quota[p].ndiscard = cfg.discarded_samples

\* C19 witness: 19 samples on two processes, quota 10 each, one sweep
\* discarded by default
C19_Witness ==
  /\ nprocs = 2 /\ cfg.nsamples = 19 /\ cfg.discarded_samples = -1
  /\ \A p \in Ranks :
       /\ vmc_pc[p] # "construct"
       /\ quota[p].nsamples_node = 10
       /\ quota[p].ndiscard = 1

\* the ratio a full evaluation of the amplitude would give for a proposal:
\* |exp(LogVal(v') - LogVal(v))|^2
FullRatio(v, tochange, newconf) ==
  StdNorm(StdExp(LET new == LogVal(psi_, UpdateConf(v, tochange, newconf))
                     old == LogVal(psi_, v)
                 IN  <<new[1] - old[1], DDiv(new[2], old[2])>>))

\* C20: after every iteration of Sweep, with last.v and last.lt the
\* configuration and the lookup table the iteration started from: a proposal
\* was tested with ratio = |exp(LogValDiff(v, tochange, newconf, lookup))|^2
\* taken from the lookup table, it was applied (UpdateLookup, UpdateConf)
\* exactly when ratio > u for the u drawn, hence always when ratio >= 1 and
\* never when ratio = 0; a rejected proposal, and an iteration without a
\* proposal, left the configuration and the lookup table as they were
C20_MetropolisTest ==
  mg_pc \in {"idle", "sweep", "undefined"} =>
    IF last.proposed
    THEN LET ratio == StdNorm(StdExp(LogValDiff(psi_, last.v, last.tochange,
                                                last.newconf, last.lt)))
         IN  /\ last.ratio = ratio
             /\ last.u \in UValues
             /\ last.applied <=> DLess(last.u, ratio)
             /\ DLess(ratio, One) \/ IsNaN(ratio) \/ last.applied
             /\ ratio = Zero => ~last.applied
             /\ last.applied =>
                  /\ v_ = UpdateConf(last.v, last.tochange, last.newconf)
                  /\ lt_ = UpdateLookup(psi_, last.v, last.tochange,
                                        last.newconf, last.lt)
             /\ ~last.applied => v_ = last.v /\ lt_ = last.lt
    ELSE last.op = "Sweep" => v_ = last.v /\ lt_ = last.lt

\* C20 witness: a proposal with a ratio strictly between 0 and 1 was
\* rejected, and the ratio it was tested with, taken from a lookup table
\* that SetVisible had left behind, is not the one a full evaluation gives
C20_Witness ==
  /\ mg_pc \in {"idle", "sweep"}
  /\ last.proposed
  /\ ~last.applied
  /\ DLess(Zero, last.ratio) /\ DLess(last.ratio, One)
  /\ v_ = last.v /\ lt_ = last.lt
  /\ FullRatio(last.v, last.tochange, last.newconf) # last.ratio

\* C21: after Reset(initrandom) the lookup table is the one InitLookup
\* builds from the configuration the chain now holds and both acceptance
\* counters (and both move counters) are zero; with initrandom false the
\* configuration is the one Reset started from, with initrandom true it is
\* a valid configuration of the Hilbert space
C21_Reset ==
  (mg_pc = "idle" /\ last.op = "Reset") =>
    /\ lt_ = InitLookup(psi_, v_)
    /\ accept_ = ZeroCounters /\ moves_ = ZeroCounters
    /\ ~last.initrandom => v_ = last.v
    /\ last.initrandom => v_ \in Configurations(nv_, NUp(last.v))

\* C21 witness: Reset(false) on a chain that had made moves and whose
\* lookup table SetVisible had left stale: the configuration is kept, the
\* lookup table is rebuilt and differs from the stale one
C21_Witness ==
  /\ mg_pc = "idle" /\ last.op = "Reset" /\ ~last.initrandom
  /\ last.moves[0] + last.moves[1] > 0
  /\ last.lt # InitLookup(psi_, last.v)
  /\ v_ = last.v /\ lt_ # last.lt /\ moves_ = ZeroCounters

\* the counters of move type k grew as an iteration of Sweep of that type
\* makes them grow: one more move, one more accepted move exactly when the
\* proposal was applied
CountersStep ==
  \E k \in 0..1 :
    /\ last.proposed => last.k = k
    /\ moves_ = [j \in 0..1 |-> IF j = k THEN last.moves[j] + 1
                                ELSE last.moves[j]]
    /\ accept_ = [j \in 0..1 |->
                    IF j = k /\ last.proposed /\ last.applied
                    THEN last.accept[j] + 1 ELSE last.accept[j]]

\* 0 <= accept[k] <= moves[k], Sweep counts one move per site (between two
\* sweeps the moves are a multiple of the number of sites, inside a sweep
\* they run ahead by the loop variable), and the counters change by
\* CountersStep
CountersInvariant ==
  /\ \A k \in 0..1 : 0 <= accept_[k] /\ accept_[k] <= moves_[k]
  /\ (moves_[0] + moves_[1]) % nv_ = sweep_i
  /\ sweep_i = 0 <=> mg_pc = "idle"
  /\ last.op = "Sweep" => CountersStep

\* Acceptance() returns for each move type a finite value in [0, 1]
AcceptanceFinite ==
  \A k \in 0..1 :
    /\ IsFinite(Acceptance[k])
    /\ ~DLess(Acceptance[k], Zero) /\ ~DLess(One, Acceptance[k])

\* C22: the acceptance statistics are kept per move type: 0 <= accept[k] <=
\* moves[k], each Sweep raises moves[0] + moves[1] by the number of sites,
\* accept[k] grows by one only when a move of type k is accepted, and
\* Acceptance(), called between sweeps, returns accept[k] / moves[k], a
\* finite value in [0, 1], for each k
C22_AcceptanceStatistics ==
  mg_pc \in {"idle", "sweep"} =>
    /\ CountersInvariant
    /\ mg_pc = "idle" => AcceptanceFinite

RECURSIVE FirstOccurrences(_)
\* a sequence of names without the repetitions of a name
FirstOccurrences(names) ==
  IF names = <<>> THEN <<>>
  ELSE LET front == FirstOccurrences(SubSeq(names, 1, Len(names) - 1))
           name == names[Len(names)]
       IN  IF \E i \in DOMAIN front : front[i] = name THEN front
           ELSE Append(front, name)

\* the order in which the names held by a store were inserted: "Energy" by
\* the first step, then the observables in the order of their registration
InsertionOrder(map) ==
  SelectSeq(FirstOccurrences(<<EnergyKey>> \o cfg.obsnames),
            LAMBDA name : name \in DOMAIN map)

\* C23: the observable store holds one Stats per name; a report visits the
\* names in the order of their insertion; the store is empty when a step
\* starts, before anything is accumulated; and every entry the store holds
\* when a report is made was computed from the samples of the latest step
C23_ObservableStore ==
  \A p \in Ranks :
    /\ \A order \in ReportOrders(observable_stats[p]) :
         order = InsertionOrder(observable_stats[p])
    /\ vmc_pc[p] = "advance" => observable_stats[p] = <<>>
    /\ vmc_pc[p] = "run_barrier" =>
         \A name \in DOMAIN observable_stats[p] :
           observable_stats[p][name].gen = nsampled[p]

\* C24: whenever validation passes on every process, each process of
\* Statistics executes exactly two all-reduces, first the one of the complex
\* mean and then the one of the pair (B, W), whatever the data: a process past
\* validation is in its first all-reduce having handed over its local mean, a
\* process past the first is in its second having handed over its local pair,
\* and a process that returned has executed both, the single chain that returns
\* NaN included.
C24_TwoAllreduces ==
  (\A q \in Ranks : ~StatisticsRaises(input_values[q], input_chains[q])) =>
    \A p \in Ranks :
      /\ stat_pc[p] \in {"call", "allreduce_mean", "allreduce_var", "returned"}
      /\ stat_pc[p] = "call" => ncollectives[p] = 0
      /\ stat_pc[p] = "allreduce_mean" =>
           /\ ncollectives[p] = 1
           /\ sent_mean[p] = LocalMean(local_stats[p])
      /\ stat_pc[p] \in {"allreduce_var", "returned"} =>
           /\ ncollectives[p] = 2
           /\ sent_var[p] = LocalVar(local_stats[p], global_mean[p])
           /\ \A q \in Ranks : ncollectives[q] >= 1
      /\ stat_pc[p] = "returned" => \A q \in Ranks : ncollectives[q] = 2

\* C24 witness: the single chain of one process has returned its NaN error
\* after both all-reduces
C24_Witness ==
  /\ nprocs = 1 /\ input_chains[0] = 1 /\ Len(input_values[0]) = 2
  /\ stat_pc[0] = "returned" /\ IsNaN(stats[0].variance)
  /\ ncollectives[0] = 2

\* the lookup table is the one InitLookup builds from the configuration
LookupCurrent == lt_ = InitLookup(psi_, v_)

\* C25: after the constructor, a Reset or an iteration of Sweep that started
\* from a lookup table equal to InitLookup of its configuration, the lookup
\* table equals InitLookup of the configuration the chain now holds, an
\* applied move having passed the old configuration to UpdateLookup; after
\* SetVisible the lookup table is the one the chain had before
C25_LookupTable ==
  /\ last.op \in {"Init", "Reset"} => LookupCurrent
  /\ (/\ last.op \in {"Sweep", "Overrun"}
      /\ last.lt = InitLookup(psi_, last.v)) => LookupCurrent
  /\ (last.op = "Sweep" /\ last.proposed /\ last.applied) =>
       lt_ = UpdateLookup(psi_, last.v, last.tochange, last.newconf, last.lt)
  /\ last.op = "SetVisible" => lt_ = last.lt

\* the number of sites of v that hold the value x
Count(v, x) == Cardinality({i \in DOMAIN v : v[i] = x})

\* C26: an iteration of Sweep leaves the multiset of the values of the
\* configuration as it found it: each value is held by as many sites after
\* the iteration as before
C26_Permutation ==
  last.op \in {"Sweep", "Overrun"} =>
    \A x \in {v_[i] : i \in DOMAIN v_} \cup {last.v[i] : i \in DOMAIN last.v} :
      Count(v_, x) = Count(last.v, x)

\* C27: the sites of every cluster are two distinct sites of [0, nv) within
\* distance dmax; every site an iteration of Sweep reads or proposes to
\* change lies in [0, nv), for every number of sites the constructor accepts
C27_SitesInRange ==
  /\ \A c \in 1..Len(clusters_) :
       /\ clusters_[c][1] \in 0..(nv_ - 1) /\ clusters_[c][2] \in 0..(nv_ - 1)
       /\ clusters_[c][1] # clusters_[c][2]
       /\ Dist(clusters_[c][1], clusters_[c][2]) <= DefaultDmax
  /\ (last.op = "Sweep" /\ last.proposed) =>
       \A s \in 1..Len(last.tochange) : last.tochange[s] \in 0..(nv_ - 1)
  /\ last.op = "Overrun" =>
       \A s \in 1..Len(last.tochange) : last.tochange[s] \in 0..(nv_ - 1)
  /\ (last.op = "Undefined" /\ clusters_ # <<>>) => L_ * L_ <= nv_

\* C28: a constructor of Sampler that has returned left a concrete sampler in
\* the wrapper, whichever of the four it is and whatever configuration
\* passed CheckInput, and every later Reset, Sweep, Visible or Acceptance was
\* delegated to that sampler
C28_ConcreteSampler ==
  /\ sw_pc = "ready" => s_ # "null"
  /\ sw_pc # "undefined"
  /\ \A i \in 1..Len(sw_calls) : sw_calls[i][2] # "null"

\* C29: when an iteration of Run has made its report, the entry under
\* "Energy" holds the statistics of the Hamiltonian's local values on the
\* samples of the latest step, whatever names the observables were
\* registered under, and every registered observable has an entry under its
\* name that holds its own statistics
C29_EnergyEntry ==
  \A p \in Ranks :
    vmc_pc[p] = "run_barrier" =>
      /\ EnergyKey \in DOMAIN observable_stats[p]
      /\ observable_stats[p][EnergyKey].op = "ham_"
      /\ observable_stats[p][EnergyKey].gen = nsampled[p]
      /\ \A i \in 0..(cfg.nobs - 1) :
           /\ ObsKey(i) \in DOMAIN observable_stats[p]
           /\ observable_stats[p][ObsKey(i)].op = <<"obs_", i>>

RECURSIVE Binomial(_, _)
\* the binomial coefficient C(n, k)
Binomial(n, k) == IF k = 0 THEN 1 ELSE (Binomial(n - 1, k - 1) * n) \div k

\* the rows of nv values of which nv/2 are +1 and nv/2 are -1
Arrangements(nv) ==
  { v \in [1..nv -> {-1, 1}] :
      /\ Cardinality({j \in 1..nv : v[j] = 1}) = nv \div 2
      /\ Cardinality({j \in 1..nv : v[j] = -1}) = nv \div 2 }

\* C30: for every number nv of visible units, dim_ is computed without a
\* product that overflows an int and equals C(nv, nv/2); GetConfig fills its
\* rows from values inside the list myints, and when it returns it has
\* enumerated dim_ rows, all distinct: the arrangements of nv/2 values +1
\* and nv/2 values -1
C30_Dimension ==
  /\ ve_ub = {}
  /\ ve_pc # "undefined"
  /\ ve_pc \in {"constructed", "fill", "done"} =>
       dim_ = Binomial(ve_nv, ve_nv \div 2)
  /\ ve_pc = "done" =>
       /\ ve_count = dim_
       /\ Len(vsamp_) = dim_
       /\ \A i, j \in 1..Len(vsamp_) : i # j => vsamp_[i] # vsamp_[j]
       /\ {vsamp_[i] : i \in 1..Len(vsamp_)} = Arrangements(ve_nv)

====
